---- MODULE Spec2Model ----
(***************************************************************************)
(* Offline-first sync engine of the job-work inventory tracker.            *)
(*                                                                         *)
(* The model follows src/App.tsx (the React shell that owns the local      *)
(* state, the busy flag and the token client), src/services/sheets.ts      *)
(* lines 1-333 (syncDataToSheets and its helpers) and the forms in         *)
(* src/pages (Outward, Inward, Masters, Report).                           *)
(*                                                                         *)
(* Representation of values                                                *)
(*   identifiers  positive naturals; uuidv4() is the least one that no     *)
(*                record or reference in memory holds; 0 is the empty      *)
(*                string ''                                                *)
(*   dates        [fmt, day]: fmt "iso" is an ISO timestamp, "isoday" its  *)
(*                part before the 'T', "disp" the DD-Mon-YYYY text that    *)
(*                formatDisplayDate writes into a row                      *)
(*   challan no.  [code, seq]: `${vendor.code}-${seq padded to 3}`         *)
(*   photo        TRUE when the entry carries a base64 payload             *)
(*   photoUrl     "" (none) or "url"                                       *)
(*   a range      a sequence of rows whose first row is the header row     *)
(***************************************************************************)
EXTENDS Naturals, Sequences, FiniteSets, TLC

VARIABLES
    apiKey,         \* localStorage GOOGLE_API_KEY is set
    state,          \* App: useState<AppState>
    syncTargetRef,  \* App: useRef<AppState>
    isSyncing,      \* App: useState(false), the busy flag
    authError,      \* App: useState<string | null>
    tokenClient,    \* App: useRef, TRUE once initTokenClient has run
    gapiToken,      \* gapi.client.getToken(): "none" or "valid"
    procs,          \* sync requests in flight, from triggerAutoSync to the end of the cycle
    remote,         \* the spreadsheet: one range per entity
    syncsStarted,   \* number of sync requests that passed the busy flag
    inFlightOps,    \* user actions taken since the sync request in flight was made
    lastSync,       \* history: the state the last successful cycle returned, and the
                    \* spreadsheet as it left it
    report,         \* the rows the report code has computed from state
    localStorage,   \* storage.ts: the item stored under STORAGE_KEY
    upload,         \* one call of uploadImage: its position and its result
    weighing,       \* the vendor and the weight fields of an entry form, and the
                    \* weight fields of the entry made last
    rowTrip         \* one entry on its way through the row writer and the row parser

\* the variables of the App and of the sync engine
appVars == <<apiKey, state, syncTargetRef, isSyncing, authError, tokenClient, gapiToken,
             procs, remote, syncsStarted, inFlightOps, lastSync>>

\* the variables of the components that are checked on their own
sideVars == <<report, localStorage, upload, weighing, rowTrip>>

vars == <<appVars, sideVars>>

(***************************************************************************)
(* Bounds of the model.                                                    *)
(***************************************************************************)
MaxSyncs == 2        \* sync requests that pass the busy flag
MaxMasters == 1      \* master records held in local state
MaxOutward == 2      \* entries saved through the Outward form
MaxInward == 2       \* entries saved through the Inward form
MaxQty == 2          \* largest quantity typed into a form
MaxInFlight == 1     \* user actions taken while one sync request is in flight

Kinds == {"vendors", "items", "workTypes", "users"}
VendorNames == {"Acme"}
VendorCodes == {"AC"}
SkuInputs == {"s1"}
WorkNames == {"Polish"}
UserNames == {"Ravi"}
Days == {1}
OutQtys == {MaxQty}
InQtys == {1}
ComboQtys == {0}
\* whether the form holds a photo when it is submitted
OutPhotos == BOOLEAN
InPhotos == BOOLEAN

(***************************************************************************)
(* Strings.                                                                *)
(***************************************************************************)
\* String.prototype.trim on the strings of the model
Trim(s) ==
    CASE s = " AC " -> "AC"
      [] s = " Acme " -> "Acme"
      [] s = " S1 " -> "S1"
      [] OTHER -> s

\* String.prototype.toLowerCase
Lower(s) ==
    CASE s = "Acme" -> "acme"
      [] s = "ACME" -> "acme"
      [] s = "AC" -> "ac"
      [] s = "S1" -> "s1"
      [] s = "Polish" -> "polish"
      [] s = "Ravi" -> "ravi"
      [] s = "Unknown" -> "unknown"
      [] OTHER -> s

\* String.prototype.toUpperCase
Upper(s) ==
    CASE s = "s1" -> "S1"
      [] s = "acme" -> "ACME"
      [] s = "ac" -> "AC"
      [] OTHER -> s

NoChallan == [code |-> "---", seq |-> 0]

ChallanTrim(c) == [code |-> Trim(c.code), seq |-> c.seq]
ChallanLower(c) == [code |-> Lower(c.code), seq |-> c.seq]

(***************************************************************************)
(* Dates.                                                                  *)
(***************************************************************************)
\* new Date(formData.date).toISOString()
IsoDate(d) == [fmt |-> "iso", day |-> d]

\* formatDisplayDate: DD-Mon-YYYY
formatDisplayDate(date) == [fmt |-> "disp", day |-> date.day]

\* parseDate: any parseable value to an ISO timestamp
parseDate(v) == [fmt |-> "iso", day |-> v.day]

\* dateStr.split('T')[0]: only an ISO timestamp contains a 'T'
SplitT(date) ==
    IF date.fmt = "iso" THEN [fmt |-> "isoday", day |-> date.day] ELSE date

(***************************************************************************)
(* Sequence helpers (Array.prototype).                                     *)
(***************************************************************************)
Range(s) == {s[i] : i \in 1..Len(s)}

\* Array.prototype.filter
FilterSeq(s, P(_)) == SelectSeq(s, P)

MapSeq(s, F(_)) == [i \in 1..Len(s) |-> F(s[i])]

\* index of the first element that satisfies P, 0 when there is none (Array.find)
FindIdx(s, P(_)) ==
    IF \E i \in 1..Len(s) : P(s[i])
    THEN CHOOSE i \in 1..Len(s) : P(s[i]) /\ \A j \in 1..(i - 1) : ~P(s[j])
    ELSE 0

\* values.slice(1) of (values || [])
Slice1(s) == IF s = <<>> THEN <<>> ELSE Tail(s)

(***************************************************************************)
(* The remote spreadsheet.                                                 *)
(***************************************************************************)
VendorHeader == [name |-> "Name", code |-> "Code"]
ItemHeader == [sku |-> "SKU"]
NameHeader == [name |-> "Name"]
OutwardHeader ==
    [date |-> [fmt |-> "hdr", day |-> 0], vendor |-> "Vendor", challanNo |-> NoChallan,
     sku |-> "SKU", qty |-> 0, photoUrl |-> "", work |-> "Work", status |-> "Status"]
InwardHeader ==
    [date |-> [fmt |-> "hdr", day |-> 0], vendor |-> "Vendor", challanNo |-> NoChallan,
     sku |-> "SKU", qty |-> 0, comboQty |-> 0, photoUrl |-> ""]

ReconHeader ==
    [status |-> "status(complete/pending/short qty completed)", vendor |-> "vendor",
     sentDate |-> [fmt |-> "hdr", day |-> 0], challanNo |-> NoChallan, workDone |-> "work done",
     sku |-> "sku", qtySent |-> 0, qtyRec |-> 0, shortQty |-> 0]

\* the spreadsheet named by SHEETS_CONFIG, every sheet holding its header row
EmptySheets ==
    [vendors |-> <<VendorHeader>>, items |-> <<ItemHeader>>, workTypes |-> <<NameHeader>>,
     users |-> <<NameHeader>>, outward |-> <<OutwardHeader>>, inward |-> <<InwardHeader>>,
     reconciliation |-> <<ReconHeader>>]

\* storage.ts: initialData
initialData ==
    [vendors |-> <<>>, items |-> <<>>, workTypes |-> <<>>, users |-> <<>>,
     outwardEntries |-> <<>>, inwardEntries |-> <<>>]

\* nothing computed, nothing stored, no upload called
NoReport == [pc |-> "none", rows |-> <<>>]
NoItem == [has |-> FALSE, item |-> [json |-> initialData], outcome |-> "none"]
NoUpload ==
    [pc |-> "idle", payload |-> "empty", targetFolder |-> "outward", parents |-> "none",
     calls |-> 0, attempts |-> 0, failure |-> "none", caught |-> FALSE, result |-> "pending",
     pUrl |-> ""]

\* the text of a number input: empty, or the digits of a number
EmptyText == [text |-> FALSE, num |-> 0]
Text(n) == [text |-> TRUE, num |-> n]

\* useState of the entry forms: the weight fields start empty; no entry made yet
EmptyWeights ==
    [totalWeight |-> EmptyText, pendalWeight |-> EmptyText, materialWeight |-> EmptyText]
NoWeighing ==
    [formData |-> EmptyWeights, vendorId |-> 0, made |-> "none",
     entry |-> [totalWeight |-> 0, pendalWeight |-> 0, materialWeight |-> 0]]

\* the cells of a row and the fields of an entry as JavaScript values: undefined,
\* a number, a string, NaN
Undef == [t |-> "undef", n |-> 0, s |-> ""]
Num(n) == [t |-> "num", n |-> n, s |-> ""]
Str(s) == [t |-> "str", n |-> 0, s |-> s]
NaN == [t |-> "nan", n |-> 0, s |-> ""]

\* no entry on its way
NoRowEntry ==
    [qty |-> Undef, comboQty |-> Undef, totalWeight |-> Undef, pendalWeight |-> Undef,
     materialWeight |-> Undef, checkedBy |-> Undef, enteredBy |-> Undef, remarks |-> Undef,
     challanNo |-> Undef, status |-> Undef]
NoRowTrip ==
    [pc |-> "none", kind |-> "outward", entry |-> NoRowEntry, row |-> <<>>, merged |-> NoRowEntry]

Init ==
    /\ apiKey = FALSE
    /\ state = initialData
    /\ syncTargetRef = initialData
    /\ isSyncing = FALSE
    /\ authError = ""
    /\ tokenClient = FALSE
    /\ gapiToken = "none"
    /\ procs = <<>>
    /\ remote = EmptySheets
    /\ syncsStarted = 0
    /\ inFlightOps = 0
    /\ lastSync = [has |-> FALSE, again |-> FALSE, merged |-> initialData, remote |-> EmptySheets]
    /\ report = NoReport
    /\ localStorage = NoItem
    /\ upload = NoUpload
    /\ weighing = NoWeighing
    /\ rowTrip = NoRowTrip

(***************************************************************************)
(* uuidv4.                                                                 *)
(***************************************************************************)
\* the identifiers a state holds, as identifiers of records and as references
IdsOf(st) ==
    {m.id : m \in Range(st.vendors) \cup Range(st.items) \cup Range(st.workTypes)
                    \cup Range(st.users)}
    \cup {e.id : e \in Range(st.outwardEntries) \cup Range(st.inwardEntries)}
    \cup {e.vendorId : e \in Range(st.outwardEntries) \cup Range(st.inwardEntries)}
    \cup {e.skuId : e \in Range(st.outwardEntries) \cup Range(st.inwardEntries)}
    \cup {e.workId : e \in Range(st.outwardEntries)}
    \cup {e.outwardChallanId : e \in Range(st.inwardEntries)}

\* every identifier held in memory
UsedIds ==
    IdsOf(state) \cup IdsOf(syncTargetRef) \cup ({weighing.vendorId} \ {0})
    \cup UNION {IdsOf(procs[i].snap) : i \in 1..Len(procs)}
    \cup UNION {{m.id : m \in Range(procs[i].ex.vendors) \cup Range(procs[i].ex.items)
                          \cup Range(procs[i].ex.workTypes) \cup Range(procs[i].ex.users)}
                : i \in 1..Len(procs)}

\* the n-th value uuidv4() returns in a step: the n-th identifier not in use
NthOf(pool, n) == CHOOSE x \in pool : Cardinality({y \in pool : y < x}) = n - 1

NthFree(used, n) == NthOf((1..(Cardinality(used) + n)) \ used, n)

Fresh(n) == NthFree(UsedIds, n)

(***************************************************************************)
(* Masters page: addVendor, addItem, addWork, addUser.                     *)
(***************************************************************************)
\* the records a Masters form can produce, before the identifier is drawn
MasterInputs(k) ==
    CASE k = "vendors" -> {[name |-> n, code |-> c] : n \in VendorNames, c \in VendorCodes}
      [] k = "items" -> {[sku |-> Upper(x)] : x \in SkuInputs}
      [] k = "workTypes" -> {[name |-> n] : n \in WorkNames}
      [] k = "users" -> {[name |-> n] : n \in UserNames}

NewMaster(k, in, id) ==
    CASE k = "vendors" -> [id |-> id, name |-> in.name, code |-> in.code, synced |-> FALSE]
      [] k = "items" -> [id |-> id, sku |-> in.sku, synced |-> FALSE]
      [] OTHER -> [id |-> id, name |-> in.name, synced |-> FALSE]

MasterCount(st) ==
    Len(st.vendors) + Len(st.items) + Len(st.workTypes) + Len(st.users)

(***************************************************************************)
(* App.tsx: the busy flag and triggerAutoSync.                             *)
(***************************************************************************)
NoSnapshot == initialData
NoExisting ==
    [vendors |-> <<>>, items |-> <<>>, workTypes |-> <<>>, users |-> <<>>,
     outward |-> <<>>, inward |-> <<>>]

\* a sync request that passed the busy flag and awaits initGapi
NewProc(forcePrompt) ==
    [pc |-> "initGapi", forcePrompt |-> forcePrompt, prompt |-> "none", hadToken |-> FALSE,
     snap |-> NoSnapshot, ex |-> NoExisting, failedOut |-> {}, failedIn |-> {}]

\* App.tsx:70  if (isSyncing) return;
BusyNever == FALSE
Busy == isSyncing

\* the request would pass the guards of triggerAutoSync and start a sync
Starts == apiKey /\ ~Busy

\* triggerAutoSync(latestState, forcePrompt) up to its first await, and the
\* useEffect that copies the new state into syncTargetRef
triggerAutoSync(latestState, forcePrompt) ==
    IF ~apiKey
    THEN /\ authError' = IF forcePrompt THEN "Missing API Key or Client ID in Setup." ELSE authError
         /\ UNCHANGED <<isSyncing, procs, syncsStarted>>
    ELSE IF Busy
    THEN UNCHANGED <<authError, isSyncing, procs, syncsStarted>>
    ELSE /\ authError' = ""
         /\ isSyncing' = TRUE
         /\ procs' = Append(procs, NewProc(forcePrompt))
         /\ syncsStarted' = syncsStarted + 1

\* updateAndSync(newState, shouldSync)
updateAndSync(newState, shouldSync) ==
    /\ procs # <<>> => inFlightOps < MaxInFlight
    /\ inFlightOps' = IF procs # <<>> THEN inFlightOps + 1 ELSE 0
    /\ UNCHANGED lastSync
    /\ state' = newState
    /\ syncTargetRef' = newState
    /\ IF shouldSync
       THEN triggerAutoSync(newState, FALSE)
       ELSE UNCHANGED <<authError, isSyncing, procs, syncsStarted>>

\* updateState(k, v)
updateState(k, v) ==
    updateAndSync([state EXCEPT ![k] = v], k = "outwardEntries")

\* the model stops starting syncs after MaxSyncs of them
MayTrigger == Starts => syncsStarted < MaxSyncs

(***************************************************************************)
(* User actions.                                                           *)
(***************************************************************************)
\* Masters.tsx saveConfig
SaveConfig ==
    /\ ~apiKey
    /\ apiKey' = TRUE
    /\ UNCHANGED <<state, syncTargetRef, isSyncing, authError, tokenClient, gapiToken,
                   procs, remote, syncsStarted, inFlightOps, lastSync>>

\* Masters.tsx addVendor / addItem / addWork / addUser
AddMaster(k, in) ==
    /\ MasterCount(state) < MaxMasters
    /\ updateState(k, Append(state[k], NewMaster(k, in, Fresh(1))))
    /\ UNCHANGED <<apiKey, tokenClient, gapiToken, remote>>

\* Outward.tsx generateChallanNo
generateChallanNo(vendorId) ==
    LET vi == FindIdx(state.vendors, LAMBDA v : v.id = vendorId)
        vendorEntries == FilterSeq(state.outwardEntries, LAMBDA e : e.vendorId = vendorId)
    IN IF vendorId = 0 \/ vi = 0 THEN NoChallan
       ELSE [code |-> state.vendors[vi].code, seq |-> Len(vendorEntries) + 1]

\* Outward.tsx handleSubmit, with App.tsx handleAddItem and addOutwardEntry
SaveOutward(vendorId, skuInput, workId, qty, day, photo) ==
    LET challanPreview == generateChallanNo(vendorId)
        isDuplicate == \E e \in Range(state.outwardEntries) : e.challanNo = challanPreview
        ii == FindIdx(state.items, LAMBDA i : Lower(i.sku) = Lower(skuInput))
        newItem == [id |-> Fresh(1), sku |-> Upper(skuInput), synced |-> FALSE]
        finalSkuId == IF ii # 0 THEN state.items[ii].id ELSE newItem.id
        entryId == IF ii # 0 THEN Fresh(1) ELSE Fresh(2)
        newEntry ==
            [id |-> entryId, date |-> IsoDate(day), vendorId |-> vendorId,
             challanNo |-> challanPreview, skuId |-> finalSkuId, qty |-> qty,
             workId |-> workId, photo |-> photo, photoUrl |-> "", status |-> "OPEN", synced |-> FALSE]
        \* onAddItem queues prev => ({...prev, items: [...prev.items, item]}); onSave
        \* then queues the object built from the rendered state, which replaces it
        queued == IF ii # 0 THEN state ELSE [state EXCEPT !.items = Append(@, newItem)]
        newState == [state EXCEPT !.outwardEntries = Append(@, newEntry)]
    IN /\ Len(state.outwardEntries) < MaxOutward
       /\ MayTrigger
       /\ ~isDuplicate
       /\ updateAndSync(newState, TRUE)
       /\ UNCHANGED <<apiKey, tokenClient, gapiToken, remote>>

\* entries.reduce((sum, i) => sum + i.qty, 0)
RECURSIVE SumQty(_)
SumQty(s) == IF s = <<>> THEN 0 ELSE Head(s).qty + SumQty(Tail(s))

\* the challans of the vendor whatever their status
pendingOutwardsAnyStatus(selectedVendorId) ==
    FilterSeq(state.outwardEntries, LAMBDA e :
        /\ e.vendorId = selectedVendorId
        /\ SumQty(FilterSeq(state.inwardEntries, LAMBDA i : i.outwardChallanId = e.id)) < e.qty)

\* Inward.tsx pendingOutwards
pendingOutwards(selectedVendorId) ==
    FilterSeq(state.outwardEntries, LAMBDA e :
        /\ e.vendorId = selectedVendorId
        /\ e.status # "COMPLETED"
        /\ SumQty(FilterSeq(state.inwardEntries, LAMBDA i : i.outwardChallanId = e.id)) < e.qty)

\* Inward.tsx handleSubmit, with App.tsx addInwardEntry; the vendor and the challan
\* are picked from the lists the form renders
SaveInward(selectedVendorId, selectedOutwardId, qtyVal, comboVal, day, photo) ==
    LET oi == FindIdx(state.outwardEntries, LAMBDA e : e.id = selectedOutwardId)
        selectedOutward == state.outwardEntries[oi]
        previousInwards ==
            FilterSeq(state.inwardEntries, LAMBDA i : i.outwardChallanId = selectedOutwardId)
        totalInwardQty == SumQty(previousInwards) + qtyVal
        newEntry ==
            [id |-> Fresh(1), date |-> IsoDate(day), outwardChallanId |-> selectedOutwardId,
             vendorId |-> selectedVendorId, skuId |-> selectedOutward.skuId, qty |-> qtyVal,
             comboQty |-> comboVal, photo |-> photo, photoUrl |-> "", synced |-> FALSE]
    IN /\ Len(state.inwardEntries) < MaxInward
       /\ MayTrigger
       /\ \E e \in Range(pendingOutwards(selectedVendorId)) : e.id = selectedOutwardId
       /\ ~(comboVal > qtyVal)
       /\ totalInwardQty <= selectedOutward.qty
       /\ updateAndSync([state EXCEPT !.inwardEntries = Append(@, newEntry)], TRUE)
       /\ UNCHANGED <<apiKey, tokenClient, gapiToken, remote>>

\* Report.tsx markJobComplete (the Short Close button is shown for a row that is not
\* COMPLETED)
markJobComplete(outwardId) ==
    LET updatedOutwards ==
            MapSeq(state.outwardEntries, LAMBDA e :
                IF e.id = outwardId
                THEN [e EXCEPT !.status = "COMPLETED", !.synced = FALSE] ELSE e)
    IN /\ \E e \in Range(state.outwardEntries) : e.id = outwardId /\ e.status # "COMPLETED"
       /\ MayTrigger
       /\ updateState("outwardEntries", updatedOutwards)
       /\ UNCHANGED <<apiKey, tokenClient, gapiToken, remote>>

\* Report.tsx "Sync & Refresh" and the Auth Error badge: triggerAutoSync(state, true)
ManualSync ==
    /\ MayTrigger
    /\ triggerAutoSync(state, TRUE)
    /\ UNCHANGED <<apiKey, state, syncTargetRef, tokenClient, gapiToken, remote, inFlightOps,
                   lastSync>>

(***************************************************************************)
(* App.tsx triggerAutoSync after its first await, and the token client.    *)
(***************************************************************************)
RemoveAt(s, i) == SubSeq(s, 1, i - 1) \o SubSeq(s, i + 1, Len(s))

\* request i is over: setIsSyncing(false)
EndRequest(i) ==
    /\ isSyncing' = FALSE
    /\ procs' = RemoveAt(procs, i)
    /\ inFlightOps' = IF Len(procs) = 1 THEN 0 ELSE inFlightOps

\* the catch block of triggerAutoSync, the error branch of the token callback and
\* error_callback: the message is shown and the busy flag is cleared
AbortRequest(i, msg) ==
    /\ authError' = msg
    /\ EndRequest(i)

\* every request asks for the account chooser
promptAlways(forcePrompt) == "select_account"

\* App.tsx:116  prompt: forcePrompt ? 'select_account' : ''
promptOf(forcePrompt) == IF forcePrompt THEN "select_account" ELSE ""

\* await initGapi(apiKey) settles; on success the token client is created once and
\* requestAccessToken is called
InitGapiReturns(i, ok) ==
    /\ i \in 1..Len(procs)
    /\ procs[i].pc = "initGapi"
    /\ IF ok
       THEN /\ tokenClient' = TRUE
            /\ procs' = [procs EXCEPT ![i].pc = "token",
                                      ![i].prompt = promptOf(procs[i].forcePrompt)]
            /\ UNCHANGED <<authError, isSyncing, inFlightOps>>
       ELSE /\ AbortRequest(i, "Failed to start sync process.")
            /\ UNCHANGED tokenClient
    /\ UNCHANGED <<apiKey, state, syncTargetRef, gapiToken, remote, syncsStarted, lastSync>>

(***************************************************************************)
(* sheets.ts syncDataToSheets: what it computes from its argument (snap)   *)
(* and from the ranges it read (ex).                                       *)
(***************************************************************************)
\* sheets.ts:190 getInwardSignature
getInwardSignature(dateStr, vendor, outChallan, qty) ==
    <<SplitT(dateStr), Lower(Trim(vendor)), ChallanLower(ChallanTrim(outChallan)), qty>>

\* the key the filters of lines 229-232 compare: code, sku, name, name
MasterKey(k, m) ==
    CASE k = "vendors" -> m.code
      [] k = "items" -> m.sku
      [] OTHER -> m.name

\* the row appended for a master: [name, code], [sku, description], [name]
MasterRow(k, m) ==
    CASE k = "vendors" -> [name |-> m.name, code |-> m.code]
      [] k = "items" -> [sku |-> m.sku]
      [] OTHER -> [name |-> m.name]

\* lines 216-219: a remote master row as a record with a fresh identifier
ParseMaster(k, r, id) ==
    CASE k = "vendors" -> [id |-> id, name |-> r.name, code |-> r.code, synced |-> TRUE]
      [] k = "items" -> [id |-> id, sku |-> r.sku, synced |-> TRUE]
      [] OTHER -> [id |-> id, name |-> r.name, synced |-> TRUE]

\* lines 216-222: the parsed ranges; identifiers are drawn range after range
ParseRanges(rem) ==
    LET nv == Len(Slice1(rem.vendors))
        ni == Len(Slice1(rem.items))
        nw == Len(Slice1(rem.workTypes))
        parse(k, base) ==
            [j \in 1..Len(Slice1(rem[k])) |-> ParseMaster(k, Slice1(rem[k])[j], Fresh(base + j))]
    IN [vendors |-> parse("vendors", 0),
        items |-> parse("items", nv),
        workTypes |-> parse("workTypes", nv + ni),
        users |-> parse("users", nv + ni + nw),
        outward |-> Slice1(rem.outward),
        inward |-> Slice1(rem.inward)]

ParsedMasters(rem) ==
    Len(Slice1(rem.vendors)) + Len(Slice1(rem.items)) + Len(Slice1(rem.workTypes))
        + Len(Slice1(rem.users))

\* lines 229-232: unsyncedVendors, unsyncedItems, unsyncedWorks, unsyncedUsers
UnsyncedMasters(c, k) ==
    FilterSeq(c.snap[k], LAMBDA e :
        ~e.synced /\ ~\E x \in Range(c.ex[k]) : MasterKey(k, x) = MasterKey(k, e))

\* line 224
seenOutwardChallans(c) == {ChallanTrim(r.challanNo) : r \in Range(c.ex.outward)}

\* lines 225-227
seenInwardSignatures(c) ==
    {getInwardSignature(r.date, r.vendor, r.challanNo, r.qty) : r \in Range(c.ex.inward)}

\* line 234
validOutwardToUploadAll(c) == FilterSeq(c.snap.outwardEntries, LAMBDA e : ~e.synced)
validOutwardToUpload(c) ==
    FilterSeq(c.snap.outwardEntries, LAMBDA e :
        ~e.synced /\ ChallanTrim(e.challanNo) \notin seenOutwardChallans(c))

\* state.vendors.find(v => v.id === id)?.name || 'Unknown'
VendorNameOf(st, id) ==
    LET vi == FindIdx(st.vendors, LAMBDA v : v.id = id)
    IN IF vi = 0 THEN "Unknown" ELSE st.vendors[vi].name

\* state.items.find(i => i.id === id)?.sku || 'Unknown'
SkuOf(st, id) ==
    LET ii == FindIdx(st.items, LAMBDA x : x.id = id)
    IN IF ii = 0 THEN "Unknown" ELSE st.items[ii].sku

\* state.workTypes.find(w => w.id === id)?.name || ''
WorkNameOf(st, id) ==
    LET wi == FindIdx(st.workTypes, LAMBDA w : w.id = id)
    IN IF wi = 0 THEN "" ELSE st.workTypes[wi].name

\* state.outwardEntries.find(o => o.id === id)?.challanNo || '---'
ChallanOf(st, id) ==
    LET oi == FindIdx(st.outwardEntries, LAMBDA o : o.id = id)
    IN IF oi = 0 THEN NoChallan ELSE st.outwardEntries[oi].challanNo

\* lines 235-240
validInwardToUpload(c) ==
    FilterSeq(FilterSeq(c.snap.inwardEntries, LAMBDA e : ~e.synced), LAMBDA e :
        getInwardSignature(e.date, VendorNameOf(c.snap, e.vendorId),
                           ChallanOf(c.snap, e.outwardChallanId), e.qty)
            \notin seenInwardSignatures(c))

\* the candidates for which the loop calls uploadImage: !pUrl && e.photo
NeedsUpload(cands) == {j \in 1..Len(cands) : cands[j].photoUrl = "" /\ cands[j].photo}

\* lines 251-256: pUrl of candidate j; uploadImage gives null for the candidates in failed
PhotoUrlOf(cands, j, failed) ==
    IF cands[j].photoUrl # "" THEN cands[j].photoUrl
    ELSE IF cands[j].photo /\ j \notin failed THEN "url"
    ELSE ""

\* lines 249-266: newOutwardRows
newOutwardRows(c) ==
    LET cands == validOutwardToUpload(c)
    IN [j \in 1..Len(cands) |->
           [date |-> formatDisplayDate(cands[j].date),
            vendor |-> VendorNameOf(c.snap, cands[j].vendorId),
            challanNo |-> cands[j].challanNo,
            sku |-> SkuOf(c.snap, cands[j].skuId),
            qty |-> cands[j].qty,
            photoUrl |-> PhotoUrlOf(cands, j, c.failedOut),
            work |-> WorkNameOf(c.snap, cands[j].workId),
            status |-> cands[j].status]]

\* lines 269-284: newInwardRows
newInwardRows(c) ==
    LET cands == validInwardToUpload(c)
    IN [j \in 1..Len(cands) |->
           [date |-> formatDisplayDate(cands[j].date),
            vendor |-> VendorNameOf(c.snap, cands[j].vendorId),
            challanNo |-> ChallanOf(c.snap, cands[j].outwardChallanId),
            sku |-> SkuOf(c.snap, cands[j].skuId),
            qty |-> cands[j].qty,
            comboQty |-> cands[j].comboQty,
            photoUrl |-> PhotoUrlOf(cands, j, c.failedIn)]]

\* lines 287-290: allVendors, allItems, allWorks, allUsers
AllMastersUnmarked(c, k) == c.ex[k] \o UnsyncedMasters(c, k)
AllMasters(c, k) ==
    c.ex[k] \o MapSeq(UnsyncedMasters(c, k), LAMBDA m : [m EXCEPT !.synced = TRUE])

\* list.find(x => key(x) === value)?.id || ''
IdByName(list, value) ==
    LET j == FindIdx(list, LAMBDA x : x.name = value)
    IN IF j = 0 THEN 0 ELSE list[j].id

IdBySku(list, value) ==
    LET j == FindIdx(list, LAMBDA x : x.sku = value)
    IN IF j = 0 THEN 0 ELSE list[j].id

\* line 294: state.outwardEntries.find(o => o.challanNo === challanNo)
OutwardLocalMatch(c, r) ==
    FindIdx(c.snap.outwardEntries, LAMBDA o : o.challanNo = r.challanNo)

\* lines 311-314: the local inward entry whose outward entry has the row's challan
\* number and whose qty is the row's
InwardLocalMatch(c, r) ==
    FindIdx(c.snap.inwardEntries, LAMBDA i :
        /\ \E o \in Range(c.snap.outwardEntries) : o.id = i.outwardChallanId
        /\ ChallanOf(c.snap, i.outwardChallanId) = r.challanNo
        /\ i.qty = r.qty)

\* localMatch?.id || uuidv4(): the rows without a local match draw identifiers in
\* row order; drawn is the number of identifiers the step has drawn before
ReusedOrFresh(rows, matchId(_), j, drawn) ==
    IF matchId(rows[j]) # 0 THEN matchId(rows[j])
    ELSE Fresh(drawn + 1 + Cardinality({q \in 1..(j - 1) : matchId(rows[q]) = 0}))

FreshCount(rows, matchId(_)) == Cardinality({q \in 1..Len(rows) : matchId(rows[q]) = 0})

OutwardMatchId(c, r) ==
    LET m == OutwardLocalMatch(c, r)
    IN IF m = 0 THEN 0 ELSE c.snap.outwardEntries[m].id

InwardMatchId(c, r) ==
    LET m == InwardLocalMatch(c, r)
    IN IF m = 0 THEN 0 ELSE c.snap.inwardEntries[m].id

\* line 296: effectiveStatus
effectiveStatus(c, r) ==
    LET m == OutwardLocalMatch(c, r)
    IN IF m # 0 /\ c.snap.outwardEntries[m].status = "COMPLETED"
       THEN "COMPLETED" ELSE r.status

\* lines 292-307: finalOutward
\* lines 298-306: the entry built from row r, with the identifier chosen for it
OutwardOfRow(c, r, id) ==
    [id |-> id,
     date |-> parseDate(r.date),
     vendorId |-> IdByName(AllMasters(c, "vendors"), r.vendor),
     challanNo |-> r.challanNo,
     skuId |-> IdBySku(AllMasters(c, "items"), r.sku),
     qty |-> r.qty,
     workId |-> IdByName(AllMasters(c, "workTypes"), r.work),
     photo |-> FALSE,
     photoUrl |-> r.photoUrl,
     status |-> effectiveStatus(c, r),
     synced |-> TRUE]

\* lines 292-307: the map over [...existingOutwardRows, ...newOutwardRows]
OutwardOfRows(c, rows, drawn) ==
    [j \in 1..Len(rows) |->
        OutwardOfRow(c, rows[j],
                     ReusedOrFresh(rows, LAMBDA r : OutwardMatchId(c, r), j, drawn))]

\* the map over the rows read only
finalOutwardReadOnly(c, drawn) == OutwardOfRows(c, c.ex.outward, drawn)
\* lines 292-307: finalOutward
finalOutward(c, drawn) == OutwardOfRows(c, c.ex.outward \o newOutwardRows(c), drawn)

\* lines 309-325: finalInward
\* every reference left unresolved
IdByChallanUnresolved(list, value) == 0
\* finalOutward.find(o => o.challanNo === outChallan)?.id || ''
IdByChallan(list, value) ==
    LET j == FindIdx(list, LAMBDA o : o.challanNo = value)
    IN IF j = 0 THEN 0 ELSE list[j].id

\* lines 316-324: the entry built from row r, with the identifier chosen for it
InwardOfRow(c, r, id, outs) ==
    [id |-> id,
     date |-> parseDate(r.date),
     outwardChallanId |-> IdByChallan(outs, r.challanNo),
     vendorId |-> IdByName(AllMasters(c, "vendors"), r.vendor),
     skuId |-> IdBySku(AllMasters(c, "items"), r.sku),
     qty |-> r.qty,
     comboQty |-> r.comboQty,
     photo |-> FALSE,
     photoUrl |-> r.photoUrl,
     synced |-> TRUE]

\* lines 309-325: the map over [...existingInwardRows, ...newInwardRows]; outs is
\* finalOutward and inFirst the number of identifiers drawn before this map
InwardOfRows(c, rows, outs, inFirst) ==
    [j \in 1..Len(rows) |->
        InwardOfRow(c, rows[j],
                    ReusedOrFresh(rows, LAMBDA r : InwardMatchId(c, r), j, inFirst), outs)]

finalInward(c, drawn) ==
    InwardOfRows(c, c.ex.inward \o newInwardRows(c), finalOutward(c, drawn),
                 drawn + FreshCount(c.ex.outward \o newOutwardRows(c),
                                    LAMBDA r : OutwardMatchId(c, r)))

\* line 327: the state handed to onUpdateState
MergedState(c, drawn) ==
    [vendors |-> AllMasters(c, "vendors"),
     items |-> AllMasters(c, "items"),
     workTypes |-> AllMasters(c, "workTypes"),
     users |-> AllMasters(c, "users"),
     outwardEntries |-> finalOutward(c, drawn),
     inwardEntries |-> finalInward(c, drawn)]

(***************************************************************************)
(* syncDataToSheets as a sequence of awaited remote calls.                 *)
(***************************************************************************)
\* the awaits of lines 243-285 in program order
\* the entry appends placed in front of the master appends
OrderEntriesFirst == <<"uploadOutward", "outward", "uploadInward", "inward",
                       "vendors", "items", "workTypes", "users">>

\* the awaits of syncDataToSheets after the batch read, in program order
Order == <<"vendors", "items", "workTypes", "users",
           "uploadOutward", "outward", "uploadInward", "inward">>

CyclePcs == {"batchGet"} \cup Range(Order)

StageIndex(pc) == IF pc = "batchGet" THEN 0 ELSE CHOOSE j \in 1..Len(Order) : Order[j] = pc

\* the guard in front of each await
Needed(c, stage) ==
    CASE stage \in Kinds -> UnsyncedMasters(c, stage) # <<>>
      [] stage = "uploadOutward" -> NeedsUpload(validOutwardToUpload(c)) # {}
      [] stage = "outward" -> newOutwardRows(c) # <<>>
      [] stage = "uploadInward" -> NeedsUpload(validInwardToUpload(c)) # {}
      [] stage = "inward" -> newInwardRows(c) # <<>>

\* the next await the code reaches after the one it is at, "merge" when there is none
FirstStage(later) ==
    IF later = {} THEN "merge" ELSE Order[CHOOSE j \in later : \A q \in later : j <= q]

NextStage(c) ==
    FirstStage({j \in (StageIndex(c.pc) + 1)..Len(Order) : Needed(c, Order[j])})

\* gapi.client.getToken()?.access_token
HasAccessTokenAlways(tok) == TRUE
HasAccessToken(tok) == tok = "valid"

\* lines 329-332: the catch block returns without calling onUpdateState
StateAfterFailureMerged(c, cur) == MergedState(c, 0)
StateAfterFailure(c, cur) == cur

\* values.append: the rows go below the last row of the range
Appended(range, rows) == range \o rows

\* the code runs from a settled await to the next one; with none left it merges, hands
\* the merged state to handleSyncComplete and the token callback clears the busy flag
ContinueAt(i, c, rem, drawn, nxt) ==
    /\ remote' = rem
    /\ IF nxt # "merge"
       THEN /\ procs' = [procs EXCEPT ![i] = [c EXCEPT !.pc = nxt]]
            /\ UNCHANGED <<state, syncTargetRef, isSyncing, authError, inFlightOps,
                           lastSync>>
       ELSE /\ state' = MergedState(c, drawn)
            /\ syncTargetRef' = state'
            /\ EndRequest(i)
            /\ lastSync' = [has |-> TRUE,
                            again |-> lastSync.has /\ c.snap = lastSync.merged,
                            merged |-> state', remote |-> rem]
            /\ UNCHANGED authError

Continue(i, c, rem, drawn) == ContinueAt(i, c, rem, drawn, NextStage(c))

\* the exception leaves syncDataToSheets: the token callback rejects before it
\* reaches setAuthError and setIsSyncing(false)
SyncFailsEscapes(i, msg) ==
    /\ procs' = RemoveAt(procs, i)
    /\ UNCHANGED <<state, syncTargetRef, authError, isSyncing, inFlightOps, remote, lastSync>>

\* a remote call of the cycle throws: the catch block returns {success: false}
SyncFails(i, msg) ==
    /\ state' = StateAfterFailure(procs[i], state)
    /\ syncTargetRef' = StateAfterFailure(procs[i], state)
    /\ authError' = msg
    /\ EndRequest(i)
    /\ UNCHANGED <<remote, lastSync>>

TokenResponses == {"token", "empty", "error", "error_callback"}

\* the token client answers requestAccessToken: callback(resp) or error_callback(err);
\* with a token the callback calls syncDataToSheets(syncTargetRef.current, ...)
TokenResponse(i, resp) ==
    /\ i \in 1..Len(procs)
    /\ procs[i].pc = "token"
    /\ IF resp = "error"
       THEN /\ AbortRequest(i, "OAuth error")
            /\ UNCHANGED gapiToken
       ELSE IF resp = "error_callback"
       THEN /\ AbortRequest(i, "OAuth error")
            /\ UNCHANGED gapiToken
       ELSE LET tok == IF resp = "token" THEN "valid" ELSE "none"
            IN /\ gapiToken' = tok
               /\ IF HasAccessToken(tok)
                  THEN /\ procs' = [procs EXCEPT ![i] =
                              [@ EXCEPT !.pc = "batchGet", !.forcePrompt = FALSE,
                                        !.prompt = "none",
                                        !.snap = syncTargetRef,
                                        !.hadToken = (tok = "valid")]]
                       /\ UNCHANGED <<authError, isSyncing, inFlightOps>>
                  ELSE /\ authError' = "Authorization required. Click Sync manually."
                       /\ EndRequest(i)
    /\ UNCHANGED <<apiKey, state, syncTargetRef, tokenClient, remote, syncsStarted, lastSync>>

\* line 213: batchGet settles
BatchGetReturns(i, ok) ==
    /\ i \in 1..Len(procs)
    /\ procs[i].pc = "batchGet"
    /\ IF ok
       THEN Continue(i, [procs[i] EXCEPT !.ex = ParseRanges(remote)], remote,
                     ParsedMasters(remote))
       ELSE SyncFails(i, "Sync failed")
    /\ UNCHANGED <<apiKey, tokenClient, gapiToken, syncsStarted>>

\* lines 243-246: the append of a master range settles
AppendMasterReturns(i, ok) ==
    /\ i \in 1..Len(procs)
    /\ procs[i].pc \in Kinds
    /\ LET k == procs[i].pc
           rows == MapSeq(UnsyncedMasters(procs[i], k), LAMBDA m : MasterRow(k, m))
       IN IF ok
          THEN Continue(i, procs[i], [remote EXCEPT ![k] = Appended(@, rows)], 0)
          ELSE SyncFails(i, "Sync failed")
    /\ UNCHANGED <<apiKey, tokenClient, gapiToken, syncsStarted>>

\* the candidates whose uploadImage call request i awaits
PendingUploads(i) ==
    IF procs[i].pc = "uploadOutward" THEN NeedsUpload(validOutwardToUpload(procs[i]))
    ELSE IF procs[i].pc = "uploadInward" THEN NeedsUpload(validInwardToUpload(procs[i]))
    ELSE {}

\* lines 250-256 and 270-276: the uploadImage calls of one loop settle; uploadImage
\* returns null for the candidates in failed and never throws
UploadsReturn(i, failed) ==
    /\ i \in 1..Len(procs)
    /\ procs[i].pc \in {"uploadOutward", "uploadInward"}
    /\ failed \subseteq PendingUploads(i)
    /\ Continue(i, IF procs[i].pc = "uploadOutward"
                   THEN [procs[i] EXCEPT !.failedOut = failed]
                   ELSE [procs[i] EXCEPT !.failedIn = failed], remote, 0)
    /\ UNCHANGED <<apiKey, tokenClient, gapiToken, syncsStarted>>

\* lines 267 and 285: the append of the outward or inward rows settles
AppendEntriesReturns(i, ok) ==
    /\ i \in 1..Len(procs)
    /\ procs[i].pc \in {"outward", "inward"}
    /\ LET k == procs[i].pc
           rows == IF k = "outward" THEN newOutwardRows(procs[i]) ELSE newInwardRows(procs[i])
       IN IF ok
          THEN Continue(i, procs[i], [remote EXCEPT ![k] = Appended(@, rows)], 0)
          ELSE SyncFails(i, "Sync failed")
    /\ UNCHANGED <<apiKey, tokenClient, gapiToken, syncsStarted>>

(***************************************************************************)
(* The program.                                                            *)
(***************************************************************************)
VendorIds == {0} \cup {v.id : v \in Range(state.vendors)}
WorkIds == {0} \cup {w.id : w \in Range(state.workTypes)}
OutwardIds == {e.id : e \in Range(state.outwardEntries)}

Next ==
    \/ SaveConfig /\ UNCHANGED sideVars
    \/ \E k \in Kinds : \E in \in MasterInputs(k) : AddMaster(k, in) /\ UNCHANGED sideVars
    \/ \E v \in VendorIds \ {0} : \E x \in SkuInputs : \E w \in WorkIds : \E q \in OutQtys :
         \E d \in Days : \E ph \in OutPhotos :
            SaveOutward(v, x, w, q, d, ph) /\ UNCHANGED sideVars
    \/ \E v \in VendorIds \ {0} : \E o \in OutwardIds : \E q \in InQtys :
         \E cq \in ComboQtys : \E d \in Days : \E ph \in InPhotos :
            SaveInward(v, o, q, cq, d, ph) /\ UNCHANGED sideVars
    \/ \E o \in OutwardIds : markJobComplete(o) /\ UNCHANGED sideVars
    \/ ManualSync /\ UNCHANGED sideVars
    \/ \E i \in 1..Len(procs) : \E ok \in BOOLEAN :
            InitGapiReturns(i, ok) /\ UNCHANGED sideVars
    \/ \E i \in 1..Len(procs) : \E resp \in TokenResponses :
            TokenResponse(i, resp) /\ UNCHANGED sideVars
    \/ \E i \in 1..Len(procs) : \E ok \in BOOLEAN :
            BatchGetReturns(i, ok) /\ UNCHANGED sideVars
    \/ \E i \in 1..Len(procs) : \E ok \in BOOLEAN :
            AppendMasterReturns(i, ok) /\ UNCHANGED sideVars
    \/ \E i \in 1..Len(procs) : \E f \in SUBSET PendingUploads(i) :
            UploadsReturn(i, f) /\ UNCHANGED sideVars
    \/ \E i \in 1..Len(procs) : \E ok \in BOOLEAN :
            AppendEntriesReturns(i, ok) /\ UNCHANGED sideVars

Spec == Init /\ [][Next]_vars

(***************************************************************************)
(* Syncs of a device whose unsynced masters meet a spreadsheet that another *)
(* client has filled: the keys are equal, or differ in letter case or in   *)
(* surrounding whitespace only.                                            *)
(***************************************************************************)
\* the spreadsheet with one row in every master range
FilledSheets ==
    [EmptySheets EXCEPT !.vendors = Append(@, [name |-> "Acme", code |-> "AC"]),
                        !.items = Append(@, [sku |-> "S1"]),
                        !.workTypes = Append(@, [name |-> "Polish"]),
                        !.users = Append(@, [name |-> "Ravi"])]

\* what the forms of the Masters page accept for the key of a new master: the code and
\* the SKU are upper-cased as typed, nothing is trimmed
LocalKeys(k) ==
    CASE k = "vendors" -> {"AC", " AC "}
      [] k = "items" -> {"S1", " S1 "}
      [] k = "workTypes" -> {"Polish", "polish"}
      [] k = "users" -> {"Ravi", "ravi"}

\* the local list of kind k: empty, or one unsynced master with the key
LocalMasters(k, id) ==
    {<<>>} \cup
    {<<NewMaster(k, IF k = "vendors" THEN [name |-> "Acme", code |-> key]
                    ELSE IF k = "items" THEN [sku |-> key] ELSE [name |-> key], id)>> :
        key \in LocalKeys(k)}

DedupStates ==
    {[initialData EXCEPT !.vendors = v, !.items = x, !.workTypes = w, !.users = u] :
        v \in LocalMasters("vendors", 1), x \in LocalMasters("items", 2),
        w \in LocalMasters("workTypes", 3), u \in LocalMasters("users", 4)}

DedupInit ==
    /\ state \in DedupStates
    /\ syncTargetRef = state
    /\ remote = FilledSheets
    /\ apiKey = FALSE
    /\ isSyncing = FALSE
    /\ authError = ""
    /\ tokenClient = FALSE
    /\ gapiToken = "none"
    /\ procs = <<>>
    /\ syncsStarted = 0
    /\ inFlightOps = 0
    /\ lastSync = [has |-> FALSE, again |-> FALSE, merged |-> initialData, remote |-> EmptySheets]
    /\ report = NoReport
    /\ localStorage = NoItem
    /\ upload = NoUpload
    /\ weighing = NoWeighing
    /\ rowTrip = NoRowTrip

DedupNext ==
    \/ SaveConfig /\ UNCHANGED sideVars
    \/ ManualSync /\ UNCHANGED sideVars
    \/ \E i \in 1..Len(procs) : \E ok \in BOOLEAN :
            InitGapiReturns(i, ok) /\ UNCHANGED sideVars
    \/ \E i \in 1..Len(procs) : \E resp \in TokenResponses :
            TokenResponse(i, resp) /\ UNCHANGED sideVars
    \/ \E i \in 1..Len(procs) : \E ok \in BOOLEAN :
            BatchGetReturns(i, ok) /\ UNCHANGED sideVars
    \/ \E i \in 1..Len(procs) : \E ok \in BOOLEAN :
            AppendMasterReturns(i, ok) /\ UNCHANGED sideVars

SpecDedup == DedupInit /\ [][DedupNext]_vars

(***************************************************************************)
(* Syncs of a device that starts empty against a spreadsheet other devices *)
(* have written: rows that share a challan number, inward rows that share  *)
(* challan and quantity on different days, inward rows whose challan has   *)
(* no outward row.                                                         *)
(***************************************************************************)
MaxSharedRows == 2   \* rows per entry range of the shared spreadsheet

\* an outward row as lines 257-264 write it
SharedOutwardRow(seq, day) ==
    [date |-> formatDisplayDate(IsoDate(day)), vendor |-> "Acme",
     challanNo |-> [code |-> "AC", seq |-> seq], sku |-> "S1", qty |-> MaxQty,
     photoUrl |-> "", work |-> "Polish", status |-> "OPEN"]

\* an inward row as lines 277-282 write it
SharedInwardRow(seq, day) ==
    [date |-> formatDisplayDate(IsoDate(day)), vendor |-> "Acme",
     challanNo |-> [code |-> "AC", seq |-> seq], sku |-> "S1", qty |-> 1, comboQty |-> 0,
     photoUrl |-> ""]

\* the lists of at most MaxSharedRows rows
RowLists(rows) ==
    UNION {[1..n -> rows] : n \in 0..MaxSharedRows}

SharedSheets ==
    {[FilledSheets EXCEPT !.outward = @ \o o, !.inward = @ \o n] :
        o \in RowLists({SharedOutwardRow(1, 1), SharedOutwardRow(2, 1)}),
        n \in RowLists({SharedInwardRow(1, 1), SharedInwardRow(1, 2), SharedInwardRow(3, 1)})}

SharedInit ==
    /\ state = initialData
    /\ syncTargetRef = state
    /\ remote \in SharedSheets
    /\ apiKey = FALSE
    /\ isSyncing = FALSE
    /\ authError = ""
    /\ tokenClient = FALSE
    /\ gapiToken = "none"
    /\ procs = <<>>
    /\ syncsStarted = 0
    /\ inFlightOps = 0
    /\ lastSync = [has |-> FALSE, again |-> FALSE, merged |-> initialData, remote |-> EmptySheets]
    /\ report = NoReport
    /\ localStorage = NoItem
    /\ upload = NoUpload
    /\ weighing = NoWeighing
    /\ rowTrip = NoRowTrip

SharedNext ==
    \/ SaveConfig /\ UNCHANGED sideVars
    \/ ManualSync /\ UNCHANGED sideVars
    \/ \E i \in 1..Len(procs) : \E ok \in BOOLEAN :
            InitGapiReturns(i, ok) /\ UNCHANGED sideVars
    \/ \E i \in 1..Len(procs) : \E resp \in TokenResponses :
            TokenResponse(i, resp) /\ UNCHANGED sideVars
    \/ \E i \in 1..Len(procs) : \E ok \in BOOLEAN :
            BatchGetReturns(i, ok) /\ UNCHANGED sideVars

SpecShared == SharedInit /\ [][SharedNext]_vars

(***************************************************************************)
(* The Outward form across sync cycles: the vendor is selected in one      *)
(* event and the entry saved in a later one; cycles may complete between. *)
(***************************************************************************)
\* the vendor, synced by an earlier session, and its row
SyncedVendor == [NewMaster("vendors", [name |-> "Acme", code |-> "AC"], 1) EXCEPT !.synced = TRUE]

FormInit ==
    /\ state = [initialData EXCEPT !.vendors = <<SyncedVendor>>]
    /\ syncTargetRef = state
    /\ remote = [EmptySheets EXCEPT !.vendors = Append(@, MasterRow("vendors", SyncedVendor))]
    /\ apiKey = FALSE
    /\ isSyncing = FALSE
    /\ authError = ""
    /\ tokenClient = FALSE
    /\ gapiToken = "none"
    /\ procs = <<>>
    /\ syncsStarted = 0
    /\ inFlightOps = 0
    /\ lastSync = [has |-> FALSE, again |-> FALSE, merged |-> initialData, remote |-> EmptySheets]
    /\ report = NoReport
    /\ localStorage = NoItem
    /\ upload = NoUpload
    /\ weighing = NoWeighing
    /\ rowTrip = NoRowTrip

\* Outward.tsx:148  the Select of the vendor: setFormData({...formData, vendorId})
SelectVendor(vendorId) ==
    /\ weighing' = [weighing EXCEPT !.vendorId = vendorId]
    /\ UNCHANGED <<appVars, report, localStorage, upload, rowTrip>>

\* Outward.tsx handleSubmit with the vendor the form holds; the form is reset
SubmitOutward(skuInput, workId, qty, day) ==
    /\ weighing.vendorId # 0
    /\ SaveOutward(weighing.vendorId, skuInput, workId, qty, day, FALSE)
    /\ weighing' = [weighing EXCEPT !.vendorId = 0]
    /\ UNCHANGED <<report, localStorage, upload, rowTrip>>

FormNext ==
    \/ SaveConfig /\ UNCHANGED sideVars
    \/ \E v \in VendorIds \ {0} : SelectVendor(v)
    \/ \E x \in SkuInputs : \E w \in WorkIds : \E q \in OutQtys : \E d \in Days :
            SubmitOutward(x, w, q, d)
    \/ ManualSync /\ UNCHANGED sideVars
    \/ \E i \in 1..Len(procs) : \E ok \in BOOLEAN :
            InitGapiReturns(i, ok) /\ UNCHANGED sideVars
    \/ \E i \in 1..Len(procs) : \E resp \in TokenResponses :
            TokenResponse(i, resp) /\ UNCHANGED sideVars
    \/ \E i \in 1..Len(procs) : \E ok \in BOOLEAN :
            BatchGetReturns(i, ok) /\ UNCHANGED sideVars
    \/ \E i \in 1..Len(procs) : \E ok \in BOOLEAN :
            AppendEntriesReturns(i, ok) /\ UNCHANGED sideVars

SpecForm == FormInit /\ [][FormNext]_vars

(***************************************************************************)
(* The row writer and the row parser of syncDataToSheets on one uploaded   *)
(* entry: the row built in lines 258-265 / 278-283 is the array that lines *)
(* 292-325 map to the merged entry.                                        *)
(***************************************************************************)
\* x || y
Falsy(x) == x.t = "undef" \/ x.t = "nan" \/ x = Num(0) \/ x = Str("")
Or(x, y) == IF Falsy(x) THEN y ELSE x

\* parseFloat(x): a number is read back as itself, no other cell of a row built in
\* memory holds digits
parseFloat(x) == IF x.t = "num" THEN x ELSE NaN

\* r[n], n counted from 0
Cell(r, n) == IF n + 1 \in 1..Len(r) THEN r[n + 1] ELSE Undef

\* lines 258-265: the outward row of entry e
writeOutwardRow(e) ==
    <<Str("date"), Str("Acme"), e.challanNo, Str("S1"),
      e.qty, Or(e.comboQty, Str("")), e.totalWeight, e.pendalWeight, e.materialWeight,
      Or(e.checkedBy, Str("")), Or(e.enteredBy, Str("")), Str("url"),
      Str("Polish"),
      Or(e.remarks, Str("")), Or(e.status, Str("OPEN")), Str("timestamp")>>

\* lines 278-283: the inward row of entry e
writeInwardRow(e) ==
    <<Str("date"), Str("Acme"), Str("AC-001"), Str("S1"),
      e.qty, Or(e.comboQty, Str("")), e.totalWeight, e.pendalWeight, e.materialWeight,
      Or(e.checkedBy, Str("")), Or(e.enteredBy, Str("")), Str("url"), Or(e.remarks, Str("")),
      Str("timestamp")>>

\* lines 292-307: the fields of the merged outward entry; localMatch is the entry
\* with the row's challan number
parseOutwardRow(r, localMatch) ==
    [challanNo |-> Cell(r, 2),
     status |-> IF localMatch.status = Str("COMPLETED") THEN Str("COMPLETED") ELSE Cell(r, 14),
     qty |-> parseFloat(Or(Cell(r, 4), Num(0))),
     comboQty |-> parseFloat(Or(Cell(r, 5), Num(0))),
     totalWeight |-> parseFloat(Or(Cell(r, 6), Num(0))),
     pendalWeight |-> parseFloat(Or(Cell(r, 7), Num(0))),
     materialWeight |-> parseFloat(Or(Cell(r, 8), Num(0))),
     checkedBy |-> Cell(r, 9), enteredBy |-> Cell(r, 10), remarks |-> Cell(r, 13)]

\* the inward row read with the columns of the outward row
parseInwardRowOutwardLayout(r, localMatch) == parseOutwardRow(r, localMatch)
\* lines 316-324: the fields of the merged inward entry
parseInwardRow(r, localMatch) ==
    [challanNo |-> Undef,
     status |-> Undef,
     qty |-> parseFloat(Or(Cell(r, 4), Num(0))),
     comboQty |-> parseFloat(Or(Cell(r, 5), Num(0))),
     totalWeight |-> parseFloat(Or(Cell(r, 6), Num(0))),
     pendalWeight |-> parseFloat(Or(Cell(r, 7), Num(0))),
     materialWeight |-> parseFloat(Or(Cell(r, 8), Num(0))),
     checkedBy |-> Cell(r, 9), enteredBy |-> Cell(r, 10), remarks |-> Cell(r, 12)]

\* the values the entry forms give the fields: parseFloat(..) || 0 for the numbers,
\* the text of the input or nothing for the optional texts
FormNumbers == {Num(0), Num(MaxQty)}
FormTexts(t) == {Undef, Str(""), Str(t)}

RowEntries(kind) ==
    [qty : {Num(q) : q \in 1..MaxQty},
     comboQty : {Undef} \cup FormNumbers,
     totalWeight : FormNumbers, pendalWeight : FormNumbers, materialWeight : FormNumbers,
     checkedBy : FormTexts("Ravi"), enteredBy : FormTexts("Ravi"), remarks : FormTexts("ok"),
     challanNo : IF kind = "outward" THEN {Str("AC-001")} ELSE {Undef},
     status : IF kind = "outward" THEN {Str("OPEN"), Str("COMPLETED")} ELSE {Undef}]

RowInit ==
    /\ \E kind \in {"outward", "inward"} : \E e \in RowEntries(kind) :
          rowTrip = [NoRowTrip EXCEPT !.pc = "entry", !.kind = kind, !.entry = e]
    /\ apiKey = FALSE
    /\ state = initialData
    /\ syncTargetRef = initialData
    /\ isSyncing = FALSE
    /\ authError = ""
    /\ tokenClient = FALSE
    /\ gapiToken = "none"
    /\ procs = <<>>
    /\ remote = EmptySheets
    /\ syncsStarted = 0
    /\ inFlightOps = 0
    /\ lastSync = [has |-> FALSE, again |-> FALSE, merged |-> initialData, remote |-> EmptySheets]
    /\ report = NoReport
    /\ localStorage = NoItem
    /\ upload = NoUpload
    /\ weighing = NoWeighing

\* newOutwardRows.push(..) / newInwardRows.push(..)
WriteRow ==
    /\ rowTrip.pc = "entry"
    /\ rowTrip' = [rowTrip EXCEPT !.pc = "row",
                       !.row = IF rowTrip.kind = "outward" THEN writeOutwardRow(rowTrip.entry)
                               ELSE writeInwardRow(rowTrip.entry)]
    /\ UNCHANGED <<appVars, report, localStorage, upload, weighing>>

\* the map of finalOutward / finalInward over the row
MergeRow ==
    /\ rowTrip.pc = "row"
    /\ rowTrip' = [rowTrip EXCEPT !.pc = "merged",
                       !.merged = IF rowTrip.kind = "outward"
                                  THEN parseOutwardRow(rowTrip.row, rowTrip.entry)
                                  ELSE parseInwardRow(rowTrip.row, rowTrip.entry)]
    /\ UNCHANGED <<appVars, report, localStorage, upload, weighing>>

RowNext == WriteRow \/ MergeRow

SpecRows == RowInit /\ [][RowNext]_vars

(***************************************************************************)
(* Syncs of a device that holds unsynced masters and an outward entry that *)
(* refers to them, against a spreadsheet in which another device may have  *)
(* entered masters with the same keys.                                     *)
(***************************************************************************)
\* the spreadsheets: per master range no row, the row of the local master, or, for
\* the vendor, a row with the local vendor's code under another name
RefSheets ==
    {[EmptySheets EXCEPT !.vendors = @ \o v, !.items = @ \o x, !.workTypes = @ \o w] :
        v \in {<<>>, <<[name |-> "Acme", code |-> "AC"]>>, <<[name |-> "Acme Ltd", code |-> "AC"]>>},
        x \in {<<>>, <<[sku |-> "S1"]>>},
        w \in {<<>>, <<[name |-> "Polish"]>>}}

\* a vendor, an item and a work type added on the Masters page, and an outward entry
\* saved for them
RefStates ==
    {[initialData EXCEPT
        !.vendors = <<NewMaster("vendors", [name |-> "Acme", code |-> "AC"], 1)>>,
        !.items = <<NewMaster("items", [sku |-> "S1"], 2)>>,
        !.workTypes = <<NewMaster("workTypes", [name |-> "Polish"], 3)>>,
        !.outwardEntries =
            <<[id |-> 4, date |-> IsoDate(1), vendorId |-> 1,
               challanNo |-> [code |-> "AC", seq |-> 1], skuId |-> 2, qty |-> MaxQty,
               workId |-> 3, photo |-> po, photoUrl |-> "", status |-> "OPEN",
               synced |-> FALSE]>>] : po \in OutPhotos}

RefInit ==
    /\ state \in RefStates
    /\ syncTargetRef = state
    /\ remote \in RefSheets
    /\ apiKey = FALSE
    /\ isSyncing = FALSE
    /\ authError = ""
    /\ tokenClient = FALSE
    /\ gapiToken = "none"
    /\ procs = <<>>
    /\ syncsStarted = 0
    /\ inFlightOps = 0
    /\ lastSync = [has |-> FALSE, again |-> FALSE, merged |-> initialData, remote |-> EmptySheets]
    /\ report = NoReport
    /\ localStorage = NoItem
    /\ upload = NoUpload
    /\ weighing = NoWeighing
    /\ rowTrip = NoRowTrip

(***************************************************************************)
(* Syncs of a device on which a master was added once or twice with the    *)
(* same key before the first sync.                                         *)
(***************************************************************************)
\* addVendor / addItem / addWork / addUser called n times with one input
AddedTimes(k, n) ==
    [j \in 1..n |-> NewMaster(k, CHOOSE in \in MasterInputs(k) : TRUE, j)]

BatchStates ==
    {[initialData EXCEPT ![k] = AddedTimes(k, n)] : k \in Kinds, n \in 1..2}

BatchInit ==
    /\ state \in BatchStates
    /\ syncTargetRef = state
    /\ remote = EmptySheets
    /\ apiKey = FALSE
    /\ isSyncing = FALSE
    /\ authError = ""
    /\ tokenClient = FALSE
    /\ gapiToken = "none"
    /\ procs = <<>>
    /\ syncsStarted = 0
    /\ inFlightOps = 0
    /\ lastSync = [has |-> FALSE, again |-> FALSE, merged |-> initialData, remote |-> EmptySheets]
    /\ report = NoReport
    /\ localStorage = NoItem
    /\ upload = NoUpload
    /\ weighing = NoWeighing
    /\ rowTrip = NoRowTrip

SpecBatch == BatchInit /\ [][DedupNext]_vars

(***************************************************************************)
(* The reconciliation report: the export of Masters.tsx and the on-screen  *)
(* rows of Report.tsx, both functions of the local state.                  *)
(***************************************************************************)
\* Math.max(0, a - b)
Max0(a, b) == IF a > b THEN a - b ELSE 0

\* the status precedence without the o.qty > 0 test
statusStrNoZeroTest(o, inQty) ==
    IF o.status = "COMPLETED"
    THEN (IF o.qty > inQty THEN "short qty completed" ELSE "complete")
    ELSE IF inQty >= o.qty THEN "complete" ELSE "pending"

\* handleDownloadReconReport: isMarkedClosed, isActuallyDone, statusStr
statusStr(o, inQty) ==
    LET isMarkedClosed == o.status = "COMPLETED"
        isActuallyDone == inQty >= o.qty /\ o.qty > 0
    IN IF isMarkedClosed
       THEN (IF o.qty > inQty THEN "short qty completed" ELSE "complete")
       ELSE IF isActuallyDone THEN "complete" ELSE "pending"

\* state.inwardEntries.filter(i => i.outwardChallanId === o.id)
insOf(st, o) == FilterSeq(st.inwardEntries, LAMBDA i : i.outwardChallanId = o.id)

\* one row of the exported report (the qty columns; the combo and weight columns are
\* computed by the same expressions over comboQty and totalWeight)
ReconRow(st, o, inQty) ==
    [status |-> statusStr(o, inQty),
     vendor |-> VendorNameOf(st, o.vendorId),
     sentDate |-> formatDisplayDate(o.date),
     challanNo |-> o.challanNo,
     workDone |-> WorkNameOf(st, o.workId),
     sku |-> SkuOf(st, o.skuId),
     qtySent |-> o.qty,
     qtyRec |-> inQty,
     shortQty |-> Max0(o.qty, inQty)]

\* Masters.tsx handleDownloadReconReport: the rows handed to exportToCSV
handleDownloadReconReport(st) ==
    MapSeq(st.outwardEntries, LAMBDA o : ReconRow(st, o, SumQty(insOf(st, o))))

\* one row of the on-screen report
ReportRow(st, o, inQty) ==
    LET isClosed == o.status = "COMPLETED"
    IN o @@ [vendorName |-> VendorNameOf(st, o.vendorId),
             itemSku |-> IF SkuOf(st, o.skuId) = "Unknown" THEN "UNK" ELSE SkuOf(st, o.skuId),
             workName |-> WorkNameOf(st, o.workId),
             inQty |-> inQty,
             shortQty |-> IF isClosed THEN Max0(o.qty, inQty) ELSE 0,
             pending |-> IF isClosed THEN 0 ELSE Max0(o.qty, inQty)]

\* Report.tsx reportData, before the search and the filters
reportData(st) ==
    MapSeq(st.outwardEntries, LAMBDA o : ReportRow(st, o, SumQty(insOf(st, o))))

\* Report.tsx:320  const isCompleted = r.status === 'COMPLETED' || r.pending <= 0
isCompleted(r) == r.status = "COMPLETED" \/ r.pending <= 0

\* the Download button of the Masters page
DownloadReconReport ==
    /\ report' = [pc |-> "export", rows |-> handleDownloadReconReport(state)]
    /\ UNCHANGED <<appVars, localStorage, upload, weighing, rowTrip>>

\* the Report page renders its rows
RenderReport ==
    /\ report' = [pc |-> "screen", rows |-> reportData(state)]
    /\ UNCHANGED <<appVars, localStorage, upload, weighing, rowTrip>>

\* the local states the report is computed from: two challans of one vendor, the
\* first of any quantity and status, and inward entries that reference either
MaxReportQty == 2       \* largest quantity of an entry
MaxReportInwards == 2   \* most inward entries

ReportOutward(id, seq, qty, status) ==
    [id |-> id, date |-> IsoDate(1), vendorId |-> 1, challanNo |-> [code |-> "AC", seq |-> seq],
     skuId |-> 2,
     qty |-> qty, workId |-> 3, photo |-> FALSE, photoUrl |-> "", status |-> status,
     synced |-> TRUE]

ReportInward(id, outwardChallanId, qty) ==
    [id |-> id, date |-> IsoDate(1), outwardChallanId |-> outwardChallanId, vendorId |-> 1,
     skuId |-> 2, qty |-> qty, comboQty |-> 0, photo |-> FALSE, photoUrl |-> "", synced |-> TRUE]

ReportInwardLists ==
    UNION {[1..n -> {<<ref, q>> : ref \in {4, 5}, q \in 1..MaxReportQty}] :
             n \in 0..MaxReportInwards}

ReportStates ==
    {[vendors |-> <<[id |-> 1, name |-> "Acme", code |-> "AC", synced |-> TRUE]>>,
      items |-> <<[id |-> 2, sku |-> "S1", synced |-> TRUE]>>,
      workTypes |-> <<[id |-> 3, name |-> "Polish", synced |-> TRUE]>>,
      users |-> <<>>,
      outwardEntries |-> <<ReportOutward(4, 1, q, s), ReportOutward(5, 2, 1, "OPEN")>>,
      inwardEntries |-> [k \in DOMAIN ins |-> ReportInward(5 + k, ins[k][1], ins[k][2])]] :
        q \in 0..MaxReportQty, s \in {"OPEN", "COMPLETED"}, ins \in ReportInwardLists}

ReportInit ==
    /\ state \in ReportStates
    /\ syncTargetRef = state
    /\ apiKey = FALSE
    /\ isSyncing = FALSE
    /\ authError = ""
    /\ tokenClient = FALSE
    /\ gapiToken = "none"
    /\ procs = <<>>
    /\ remote = EmptySheets
    /\ syncsStarted = 0
    /\ inFlightOps = 0
    /\ lastSync = [has |-> FALSE, again |-> FALSE, merged |-> initialData, remote |-> EmptySheets]
    /\ report = NoReport
    /\ localStorage = NoItem
    /\ upload = NoUpload
    /\ weighing = NoWeighing
    /\ rowTrip = NoRowTrip

ReportNext == DownloadReconReport \/ RenderReport

SpecReport == ReportInit /\ [][ReportNext]_vars

(***************************************************************************)
(* Vocabulary of the properties.                                           *)
(***************************************************************************)
\* the requests that are inside syncDataToSheets
Cycles == {i \in 1..Len(procs) : procs[i].pc \in CyclePcs}

\* the data rows of a range
DataRows(range) == Slice1(range)

\* request i ends in this step
Ends(i) == i \in 1..Len(procs) /\ procs' = RemoveAt(procs, i)

\* the cycle of request i ends in this step with {success: true}
Completes(i) == Ends(i) /\ procs[i].pc \in CyclePcs /\ authError' = ""

\* the cycle of request i ends in this step in the catch block
Throws(i) == Ends(i) /\ procs[i].pc \in CyclePcs /\ authError' = "Sync failed"

\* the appends of the cycle that have returned
Done(c) ==
    {Order[j] : j \in {q \in 1..Len(Order) : q < StageIndex(c.pc) /\ Needed(c, Order[q])}}
        \cap (Kinds \cup {"outward", "inward"})

(***************************************************************************)
(* C1. At most one sync cycle is in progress at any time: a request that   *)
(* arrives while a cycle runs starts no second cycle.                      *)
(***************************************************************************)
C1_SingleFlight == Cardinality(Cycles) <= 1 /\ (Cycles # {} => Len(procs) = 1)

\* a cycle is in progress and an entry was saved after it took its snapshot: the
\* sync request of that save was dropped
C1_Witness ==
    \E i \in Cycles :
        Len(state.outwardEntries) + Len(state.inwardEntries)
            > Len(procs[i].snap.outwardEntries) + Len(procs[i].snap.inwardEntries)

(***************************************************************************)
(* C2. No step destroys a local entry: an outward or inward entry of the   *)
(* local state is, after the step, still in the local state or a row of    *)
(* the remote store.                                                       *)
(***************************************************************************)
OutwardKept(e, st, rem) ==
    \/ \E e2 \in Range(st.outwardEntries) : e2.challanNo = e.challanNo
    \/ \E r \in Range(DataRows(rem.outward)) : r.challanNo = e.challanNo

InwardKept(e, ch, st, rem) ==
    \/ \E e2 \in Range(st.inwardEntries) :
          /\ e2.qty = e.qty
          /\ e2.date.day = e.date.day
          /\ ChallanOf(st, e2.outwardChallanId) = ch
    \/ \E r \in Range(DataRows(rem.inward)) :
          r.qty = e.qty /\ r.date.day = e.date.day /\ r.challanNo = ch

C2_NoLocalRecordDestroyed ==
    [][/\ \A e \in Range(state.outwardEntries) : OutwardKept(e, state', remote')
       /\ \A e \in Range(state.inwardEntries) :
             InwardKept(e, ChallanOf(state, e.outwardChallanId), state', remote')]_vars

(***************************************************************************)
(* C3. No-duplicate invariant: the remote outward range never holds two    *)
(* rows with one challan number, and every local outward entry that is     *)
(* synced has exactly one row, whatever cycles failed and were retried.    *)
(***************************************************************************)
OutwardRowsOf(ch) ==
    {j \in 1..Len(DataRows(remote.outward)) : DataRows(remote.outward)[j].challanNo = ch}

InwardTuple(r) ==
    <<r.date.day, Lower(Trim(r.vendor)), ChallanLower(ChallanTrim(r.challanNo)), r.qty>>

C4_InwardIdempotent ==
    \A j, k \in 1..Len(DataRows(remote.inward)) :
        j # k => InwardTuple(DataRows(remote.inward)[j]) # InwardTuple(DataRows(remote.inward)[k])

Content(st) ==
    [vendors |-> MapSeq(st.vendors, LAMBDA v : [name |-> v.name, code |-> v.code, synced |-> v.synced]),
     items |-> MapSeq(st.items, LAMBDA x : [sku |-> x.sku, synced |-> x.synced]),
     workTypes |-> MapSeq(st.workTypes, LAMBDA w : [name |-> w.name, synced |-> w.synced]),
     users |-> MapSeq(st.users, LAMBDA u : [name |-> u.name, synced |-> u.synced]),
     outwardEntries |-> MapSeq(st.outwardEntries, LAMBDA e :
         [date |-> e.date, vendor |-> VendorNameOf(st, e.vendorId), challanNo |-> e.challanNo,
          sku |-> SkuOf(st, e.skuId), qty |-> e.qty, work |-> WorkNameOf(st, e.workId),
          photo |-> e.photo, photoUrl |-> e.photoUrl, status |-> e.status, synced |-> e.synced]),
     inwardEntries |-> MapSeq(st.inwardEntries, LAMBDA e :
         [date |-> e.date, challanNo |-> ChallanOf(st, e.outwardChallanId),
          vendor |-> VendorNameOf(st, e.vendorId), sku |-> SkuOf(st, e.skuId), qty |-> e.qty,
          photo |-> e.photo, photoUrl |-> e.photoUrl, synced |-> e.synced])]

C6_FailureIsolation ==
    [][\A i \in 1..Len(procs) : Completes(i) =>
          /\ \A j \in procs[i].failedOut :
                LET e == validOutwardToUpload(procs[i])[j]
                IN /\ ~\E r \in Range(DataRows(remote'.outward)) : r.challanNo = e.challanNo
                   /\ \E e2 \in Range(state'.outwardEntries) : e2.id = e.id /\ ~e2.synced
          /\ \A j \in procs[i].failedIn :
                LET e == validInwardToUpload(procs[i])[j]
                IN \E e2 \in Range(state'.inwardEntries) : e2.id = e.id /\ ~e2.synced]_vars

(***************************************************************************)
(* C7. Fail closed on authorization loss: when the token client answers    *)
(* and no valid access token is held afterwards, the request ends with an  *)
(* error message, without a remote read or append and with the local       *)
(* state as it was.                                                        *)
(***************************************************************************)
C7_FailClosed ==
    [][\A i \in 1..Len(procs) :
          (procs[i].pc = "token" /\ procs' # procs /\ gapiToken' # "valid")
              => /\ Ends(i)
                 /\ authError' # ""
                 /\ ~isSyncing'
                 /\ state' = state
                 /\ remote' = remote]_vars

\* syncDataToSheets has returned for want of an access token
C7_Witness ==
    /\ authError = "Authorization required. Click Sync manually."
    /\ gapiToken = "none"
    /\ procs = <<>>
    /\ ~isSyncing

(***************************************************************************)
(* C8. When a remote call of a cycle throws after appends of that cycle    *)
(* have returned, the masters and entries of those appends are synced in   *)
(* the local state the cycle leaves.                                       *)
(***************************************************************************)
C8_PartialWorkKept ==
    [][\A i \in 1..Len(procs) : Throws(i) =>
          /\ \A k \in Done(procs[i]) \cap Kinds :
                \A m \in Range(UnsyncedMasters(procs[i], k)) :
                    \E m2 \in Range(state'[k]) :
                        MasterKey(k, m2) = MasterKey(k, m) /\ m2.synced
          /\ "outward" \in Done(procs[i]) =>
                \A e \in Range(validOutwardToUpload(procs[i])) :
                    \E e2 \in Range(state'.outwardEntries) :
                        e2.challanNo = e.challanNo /\ e2.synced]_vars

(***************************************************************************)
(* C9. In every reachable state a master or entry of the local state is    *)
(* synced only if the remote store holds a row for it.                     *)
(***************************************************************************)
HasRow(k, m) ==
    CASE k = "vendors" ->
            \E r \in Range(DataRows(remote.vendors)) : r.name = m.name /\ r.code = m.code
      [] k = "items" -> \E r \in Range(DataRows(remote.items)) : r.sku = m.sku
      [] k \in {"workTypes", "users"} -> \E r \in Range(DataRows(remote[k])) : r.name = m.name
      [] k = "outwardEntries" ->
            \E r \in Range(DataRows(remote.outward)) : r.challanNo = m.challanNo /\ r.qty = m.qty
      [] k = "inwardEntries" ->
            \E r \in Range(DataRows(remote.inward)) :
                /\ r.challanNo = ChallanOf(state, m.outwardChallanId)
                /\ r.qty = m.qty
                /\ r.date.day = m.date.day

C9_SyncedOnlyIfRemote ==
    \A k \in Kinds \cup {"outwardEntries", "inwardEntries"} :
        \A m \in Range(state[k]) : m.synced => HasRow(k, m)

\* a cycle has thrown after an earlier one succeeded: the local state holds a synced
\* master next to an entry that is still unsynced
C9_Witness ==
    /\ authError = "Sync failed"
    /\ \E v \in Range(state.vendors) : v.synced
    /\ \E e \in Range(state.outwardEntries) \cup Range(state.inwardEntries) : ~e.synced

(***************************************************************************)
(* C10. Status is monotonic: no step takes an outward entry, identified by *)
(* its challan number, from COMPLETED to OPEN.                             *)
(***************************************************************************)
C10_StatusMonotonic ==
    [][\A e \in Range(state.outwardEntries) : e.status = "COMPLETED" =>
          \A e2 \in Range(state'.outwardEntries) :
              e2.challanNo = e.challanNo => e2.status = "COMPLETED"]_vars


(***************************************************************************)
(* C11. Every successful cycle recomputes the reconciliation report from   *)
(* the merged outward and inward lists and overwrites the remote           *)
(* reconciliation range: after the cycle the range holds one row per       *)
(* merged outward entry, the row the report computes for that entry.       *)
(***************************************************************************)
C11_ReconciliationRewritten ==
    lastSync.has =>
        DataRows(lastSync.remote.reconciliation) = handleDownloadReconReport(lastSync.merged)

(***************************************************************************)
(* The weight fields of an entry: typed into the Outward or Inward form,   *)
(* or parsed from a row of the spreadsheet by the merge.                   *)
(***************************************************************************)
MaxWeight == 2      \* largest weight typed or read

\* parseFloat(text) || 0
parseFloatOr0(t) == IF t.text THEN t.num ELSE 0

\* useEffect on [formData.totalWeight, formData.pendalWeight]:
\* mat > 0 ? mat.toFixed(3) : ''
materialWeightEffect(totalWeight, pendalWeight) ==
    LET tw == parseFloatOr0(totalWeight)
        pw == parseFloatOr0(pendalWeight)
    IN IF tw > pw THEN Text(tw - pw) ELSE EmptyText

WeightTexts == {EmptyText} \cup {Text(n) : n \in 0..MaxWeight}

\* the user types the two weights; the Mat. Wt input is read-only and is set by the
\* effect that runs after the render
TypeWeights(totalWeight, pendalWeight) ==
    /\ weighing' = [weighing EXCEPT !.formData =
                        [totalWeight |-> totalWeight, pendalWeight |-> pendalWeight,
                         materialWeight |-> materialWeightEffect(totalWeight, pendalWeight)]]
    /\ UNCHANGED <<appVars, report, localStorage, upload, rowTrip>>

\* handleSubmit of the Outward and of the Inward form: the weight fields of the new
\* entry; the form is reset
SubmitWeights(kind) ==
    /\ weighing' = [formData |-> EmptyWeights, vendorId |-> 0, made |-> kind,
                    entry |-> [totalWeight |-> parseFloatOr0(weighing.formData.totalWeight),
                               pendalWeight |-> parseFloatOr0(weighing.formData.pendalWeight),
                               materialWeight |-> parseFloatOr0(weighing.formData.materialWeight)]]
    /\ UNCHANGED <<appVars, report, localStorage, upload, rowTrip>>

\* the cells r[6], r[7], r[8] of a row read from the Outward or Inward range
WeightCells == [totalWeight : WeightTexts, pendalWeight : WeightTexts, materialWeight : WeightTexts]

\* finalOutward / finalInward: the weight fields of the entry built from row r
MergeWeights(kind, r) ==
    /\ weighing' = [weighing EXCEPT !.made = kind,
                        !.entry = [totalWeight |-> parseFloatOr0(r.totalWeight),
                                   pendalWeight |-> parseFloatOr0(r.pendalWeight),
                                   materialWeight |-> parseFloatOr0(r.materialWeight)]]
    /\ UNCHANGED <<appVars, report, localStorage, upload, rowTrip>>

WeightsNext ==
    \/ \E tw \in WeightTexts : \E pw \in WeightTexts : TypeWeights(tw, pw)
    \/ \E kind \in {"outward form", "inward form"} : SubmitWeights(kind)
    \/ \E kind \in {"outward row", "inward row"} : \E r \in WeightCells : MergeWeights(kind, r)

SpecWeights == Init /\ [][WeightsNext]_vars

(***************************************************************************)
(* storage.ts: the state is saved after every change and loaded when the   *)
(* App starts.                                                             *)
(***************************************************************************)
MaxStoreInwards == 1    \* most inward entries of a saved state

\* JSON.stringify: a field that is undefined is left out of the text, which a reader
\* sees as no payload
stringify(data) == [json |-> data]

\* JSON.parse
parse(item) == item.json

\* e.synced ? { ...e, photo: undefined } : e
stripPhoto(e) == IF e.synced THEN [e EXCEPT !.photo = FALSE] ELSE e

\* the older saveData: the photo of every entry is removed
storageDataNoPhotos(data) ==
    [data EXCEPT !.outwardEntries = MapSeq(@, LAMBDA e : [e EXCEPT !.photo = FALSE]),
                 !.inwardEntries = MapSeq(@, LAMBDA e : [e EXCEPT !.photo = FALSE])]

\* saveData: storageData
storageData(data) ==
    [data EXCEPT !.outwardEntries = MapSeq(@, LAMBDA e : stripPhoto(e)),
                 !.inwardEntries = MapSeq(@, LAMBDA e : stripPhoto(e))]

\* saveData without the try block: the exception of setItem leaves the function
saveDataNoCatch(store, data, quotaExceeded) ==
    IF quotaExceeded
    THEN [store EXCEPT !.outcome = "threw"]
    ELSE [has |-> TRUE, item |-> stringify(storageData(data)), outcome |-> "stored"]

\* saveData: setItem either stores the whole text or throws QuotaExceededError and
\* leaves the item as it was; the catch block logs and returns
saveData(store, data, quotaExceeded) ==
    IF quotaExceeded
    THEN [store EXCEPT !.outcome = "skipped"]
    ELSE [has |-> TRUE, item |-> stringify(storageData(data)), outcome |-> "stored"]

\* loadData: { ...initialData, ...parsed }, initialData when nothing is stored
loadData(store) == IF store.has THEN parse(store.item) @@ initialData ELSE initialData

\* App.tsx useEffect on [state]: saveData(state)
SaveState(quotaExceeded) ==
    /\ localStorage' = saveData(localStorage, state, quotaExceeded)
    /\ UNCHANGED <<appVars, report, upload, weighing, rowTrip>>

\* the App is started again: useState(loadData()), useRef(state)
Restart ==
    /\ state' = loadData(localStorage)
    /\ syncTargetRef' = loadData(localStorage)
    /\ UNCHANGED <<apiKey, isSyncing, authError, tokenClient, gapiToken, procs, remote,
                   syncsStarted, inFlightOps, lastSync, sideVars>>

\* the states that are saved: one challan with an outward entry and up to
\* MaxStoreInwards inward entries, each synced or not, with a photo or without
StoreOutward(synced, photo) ==
    [ReportOutward(4, 1, 2, "OPEN") EXCEPT !.synced = synced, !.photo = photo]

StoreInward(k, synced, photo) ==
    [ReportInward(4 + k, 4, 1) EXCEPT !.synced = synced, !.photo = photo]

StoreStates ==
    {[vendors |-> <<[id |-> 1, name |-> "Acme", code |-> "AC", synced |-> ms]>>,
      items |-> <<[id |-> 2, sku |-> "S1", synced |-> ms]>>,
      workTypes |-> <<[id |-> 3, name |-> "Polish", synced |-> ms]>>,
      users |-> <<>>,
      outwardEntries |-> <<StoreOutward(o[1], o[2])>>,
      inwardEntries |-> [k \in DOMAIN ins |-> StoreInward(k, ins[k][1], ins[k][2])]] :
        ms \in BOOLEAN, o \in BOOLEAN \X BOOLEAN,
        ins \in UNION {[1..n -> BOOLEAN \X BOOLEAN] : n \in 0..MaxStoreInwards}}

\* what the storage holds when the App starts: nothing, or an earlier save
StoredItems ==
    {NoItem} \cup {[saveData(NoItem, st, FALSE) EXCEPT !.outcome = "none"] : st \in StoreStates}

StoreInit ==
    /\ state \in StoreStates
    /\ syncTargetRef = state
    /\ localStorage \in StoredItems
    /\ apiKey = FALSE
    /\ isSyncing = FALSE
    /\ authError = ""
    /\ tokenClient = FALSE
    /\ gapiToken = "none"
    /\ procs = <<>>
    /\ remote = EmptySheets
    /\ syncsStarted = 0
    /\ inFlightOps = 0
    /\ lastSync = [has |-> FALSE, again |-> FALSE, merged |-> initialData, remote |-> EmptySheets]
    /\ report = NoReport
    /\ upload = NoUpload
    /\ weighing = NoWeighing
    /\ rowTrip = NoRowTrip

StoreNext ==
    \/ \E quotaExceeded \in BOOLEAN : SaveState(quotaExceeded)
    \/ Restart

SpecStore == StoreInit /\ [][StoreNext]_vars

(***************************************************************************)
(* sheets.ts uploadImage with getOrCreateFolder, one await at a time, and  *)
(* the line of the upload loop that takes its result.                      *)
(***************************************************************************)
\* the photo strings: '', a string without a comma, a string with a comma that is no
\* image (data:text/plain,hello), the data URL of an image
Payloads == {"empty", "nocomma", "malformed", "valid"}

\* a returned null
ReturnNull(u, failure) == [u EXCEPT !.pc = "returned", !.result = "null", !.failure = failure]

\* the exception leaves uploadImage
onUploadErrorRethrow(u) ==
    [u EXCEPT !.pc = "returned", !.result = "threw", !.failure = "exception", !.caught = FALSE]

\* lines 176-179: catch (error) { console.error(...); return null; }
onUploadError(u) ==
    [u EXCEPT !.pc = "returned", !.result = "null", !.failure = "exception", !.caught = TRUE]

\* line 129-133: the call and the test of the payload
CallUploadImage(payload, targetFolder) ==
    /\ upload.pc = "idle"
    /\ upload' = IF payload \in {"empty", "nocomma"}
                 THEN ReturnNull([upload EXCEPT !.payload = payload,
                                               !.targetFolder = targetFolder], "payload")
                 ELSE [upload EXCEPT !.pc = "compress", !.payload = payload,
                                    !.targetFolder = targetFolder]
    /\ UNCHANGED <<appVars, report, localStorage, weighing, rowTrip>>

\* line 134: compressImage resolves, with the JPEG from onload or with the original
\* from onerror; it never rejects
CompressReturns ==
    /\ upload.pc = "compress"
    /\ upload' = [upload EXCEPT !.pc = "blob"]
    /\ UNCHANGED <<appVars, report, localStorage, weighing, rowTrip>>

\* lines 137-144: dataURLToBlob settles (its fallback may throw), then the token test
BlobReturns(ok) ==
    /\ upload.pc = "blob"
    /\ upload' = IF ~ok THEN onUploadError(upload)
                 ELSE IF ~HasAccessToken(gapiToken) THEN ReturnNull(upload, "auth")
                 ELSE [upload EXCEPT !.pc = "folderSearch"]
    /\ UNCHANGED <<appVars, report, localStorage, weighing, rowTrip>>

\* getOrCreateFolder lines 95-104: the search request settles; its catch block
\* returns null, and uploadImage then takes the configured folder as parent
FolderSearchReturns(outcome) ==
    /\ upload.pc = "folderSearch"
    /\ upload' = CASE outcome = "found" ->
                        [upload EXCEPT !.pc = "post", !.parents = "specific", !.calls = @ + 1]
                   [] outcome = "none" ->
                        [upload EXCEPT !.pc = "folderCreate", !.calls = @ + 1]
                   [] outcome = "throws" ->
                        [upload EXCEPT !.pc = "post", !.parents = "main", !.calls = @ + 1]
    /\ UNCHANGED <<appVars, report, localStorage, weighing, rowTrip>>

\* getOrCreateFolder lines 106-124: the create request settles
FolderCreateReturns(outcome) ==
    /\ upload.pc = "folderCreate"
    /\ upload' = [upload EXCEPT !.pc = "post", !.calls = @ + 1,
                                !.parents = IF outcome = "created" THEN "specific" ELSE "main"]
    /\ UNCHANGED <<appVars, report, localStorage, weighing, rowTrip>>

\* lines 161-175: the multipart POST settles; a response that is not ok returns null
\* ("Retry logic could go here, but for now just fail gracefully")
PostReturns(outcome) ==
    /\ upload.pc = "post"
    /\ LET u == [upload EXCEPT !.calls = @ + 1, !.attempts = @ + 1]
       IN upload' = CASE outcome = "link" -> [u EXCEPT !.pc = "returned", !.result = "url"]
                      [] outcome = "nolink" -> ReturnNull(u, "nolink")
                      [] outcome = "401" -> ReturnNull(u, "auth")
                      [] outcome = "503" -> ReturnNull(u, "transport")
                      [] outcome = "throws" -> onUploadError(u)
    /\ UNCHANGED <<appVars, report, localStorage, weighing, rowTrip>>

\* syncDataToSheets lines 253-265 and 273-283: pUrl = await uploadImage(...) || '',
\* then the row is pushed
PushRow ==
    /\ upload.pc = "returned"
    /\ upload.result # "threw"
    /\ upload' = [upload EXCEPT !.pc = "pushed",
                                !.pUrl = IF upload.result = "url" THEN "url" ELSE ""]
    /\ UNCHANGED <<appVars, report, localStorage, weighing, rowTrip>>

\* the loops call uploadImage inside a cycle, which starts with a token; the token
\* the upload reads later is the one the client holds then
UploadInit ==
    /\ gapiToken \in {"none", "valid"}
    /\ state = initialData
    /\ syncTargetRef = initialData
    /\ apiKey = TRUE
    /\ isSyncing = TRUE
    /\ authError = ""
    /\ tokenClient = TRUE
    /\ procs = <<>>
    /\ remote = EmptySheets
    /\ syncsStarted = 0
    /\ inFlightOps = 0
    /\ lastSync = [has |-> FALSE, again |-> FALSE, merged |-> initialData, remote |-> EmptySheets]
    /\ report = NoReport
    /\ localStorage = NoItem
    /\ upload = NoUpload
    /\ weighing = NoWeighing
    /\ rowTrip = NoRowTrip

UploadNext ==
    \/ \E payload \in Payloads : \E targetFolder \in {"outward", "inward"} :
            CallUploadImage(payload, targetFolder)
    \/ CompressReturns
    \/ \E ok \in BOOLEAN : BlobReturns(ok)
    \/ \E outcome \in {"found", "none", "throws"} : FolderSearchReturns(outcome)
    \/ \E outcome \in {"created", "denied", "throws"} : FolderCreateReturns(outcome)
    \/ \E outcome \in {"link", "nolink", "401", "503", "throws"} : PostReturns(outcome)
    \/ PushRow

SpecUpload == UploadInit /\ [][UploadNext]_vars

(***************************************************************************)
(* Vocabulary of the report properties.                                    *)
(***************************************************************************)
\* the sum of qty over a set of positions of the inward list
RECURSIVE QtyOver(_, _)
QtyOver(ins, idx) ==
    IF idx = {} THEN 0
    ELSE LET k == CHOOSE k \in idx : TRUE IN ins[k].qty + QtyOver(ins, idx \ {k})

\* the quantity received against outward entry o: the inward entries that reference it
Received(st, o) ==
    QtyOver(st.inwardEntries,
            {k \in 1..Len(st.inwardEntries) : st.inwardEntries[k].outwardChallanId = o.id})

\* the status the precedence gives, first match wins
Precedence(closed, sent, received) ==
    IF closed /\ received < sent THEN "short qty completed"
    ELSE IF closed THEN "complete"
    ELSE IF received >= sent /\ sent > 0 THEN "complete"
    ELSE "pending"

(***************************************************************************)
(* C12. The status of every exported row follows the precedence, first     *)
(* match wins: closed and received < sent is short qty completed, else     *)
(* closed is complete, else received >= sent and sent > 0 is complete,     *)
(* else pending; a short qty completed row carries sent - received as its  *)
(* short qty.                                                              *)
(***************************************************************************)
C12_StatusPrecedence ==
    report.pc = "export" =>
        /\ Len(report.rows) = Len(state.outwardEntries)
        /\ \A k \in 1..Len(report.rows) :
              LET o == state.outwardEntries[k]
                  r == report.rows[k]
              IN /\ r.status = Precedence(o.status = "COMPLETED", o.qty, Received(state, o))
                 /\ r.status = "short qty completed" =>
                        r.shortQty = o.qty - Received(state, o)

\* the export holds a closed row that received less than was sent, one short, next to
\* an open row that received all that was sent
C12_Witness ==
    /\ report.pc = "export"
    /\ \E k \in 1..Len(report.rows) :
          /\ state.outwardEntries[k].status = "COMPLETED"
          /\ report.rows[k].status = "short qty completed"
          /\ report.rows[k].qtySent = 2 /\ report.rows[k].qtyRec = 1
          /\ report.rows[k].shortQty = 1
    /\ \E k \in 1..Len(report.rows) :
          /\ state.outwardEntries[k].status = "OPEN"
          /\ report.rows[k].qtyRec = report.rows[k].qtySent
          /\ report.rows[k].status = "complete"

(***************************************************************************)
(* C13. Qty conservation in every report row, exported or on screen: the   *)
(* received qty is the sum of qty over exactly the inward entries that     *)
(* reference the outward entry; the short qty is max(0, sent - received)   *)
(* when the entry is closed and 0 for every other row, pending rows        *)
(* included.                                                               *)
(***************************************************************************)
C13_QtyConservation ==
    report.pc # "none" =>
        \A k \in 1..Len(report.rows) :
            LET o == state.outwardEntries[k]
                r == report.rows[k]
                received == IF report.pc = "export" THEN r.qtyRec ELSE r.inQty
            IN /\ received = Received(state, o)
               /\ r.shortQty = IF o.status = "COMPLETED"
                                THEN Max0(o.qty, Received(state, o)) ELSE 0

(***************************************************************************)
(* C14. Every entry, made by a form or built by the merge from a row,      *)
(* has materialWeight = max(0, totalWeight - pendalWeight): the value is   *)
(* recomputed locally, a row's materialWeight cell is never taken over     *)
(* unchecked.                                                              *)
(***************************************************************************)
C14_MaterialWeightRecomputed ==
    weighing.made # "none" =>
        weighing.entry.materialWeight =
            Max0(weighing.entry.totalWeight, weighing.entry.pendalWeight)

C16_SavedSnapshot ==
    localStorage.outcome = "stored" =>
        /\ \A k \in Kinds : loadData(localStorage)[k] = state[k]
        /\ \A list \in {"outwardEntries", "inwardEntries"} :
              /\ Len(loadData(localStorage)[list]) = Len(state[list])
              /\ \A k \in 1..Len(state[list]) :
                    LET e == state[list][k]
                        p == loadData(localStorage)[list][k]
                    IN /\ e.synced => ~p.photo
                       /\ ~e.synced => p.photo = e.photo
                       /\ [p EXCEPT !.photo = e.photo] = e

\* a state with a synced outward entry and an unsynced inward entry, both with a
\* photo, has been stored: the stored outward entry has lost its photo
C16_Witness ==
    /\ localStorage.outcome = "stored"
    /\ state.outwardEntries # <<>>
    /\ state.outwardEntries[1].synced /\ state.outwardEntries[1].photo
    /\ ~loadData(localStorage).outwardEntries[1].photo
    /\ state.inwardEntries # <<>>
    /\ ~state.inwardEntries[1].synced /\ state.inwardEntries[1].photo
    /\ loadData(localStorage).inwardEntries[1].photo

(***************************************************************************)
(* C17. A save whose storage write fails for lack of capacity does not     *)
(* throw and is skipped as a whole: the stored item is left as it was and  *)
(* a later load returns the snapshot persisted before.                     *)
(***************************************************************************)
C17_FailedSaveSkipped ==
    [][localStorage'.outcome \in {"skipped", "threw"} =>
          /\ localStorage'.outcome = "skipped"
          /\ localStorage'.has = localStorage.has
          /\ localStorage'.item = localStorage.item
          /\ loadData(localStorage') = loadData(localStorage)]_vars

\* a save was skipped while the storage holds an earlier snapshot that differs from
\* the state the save was to store
C17_Witness ==
    /\ localStorage.outcome = "skipped"
    /\ localStorage.has
    /\ localStorage.item # stringify(storageData(state))
    /\ loadData(localStorage) # initialData

\* the upload has returned to the loop
Returned == upload.pc \in {"returned", "pushed"}

(***************************************************************************)
(* C18, as stated. The upload never throws: it resolves to a URL or to     *)
(* null whatever fails, and an empty or malformed photo payload gives null *)
(* without any remote call.                                                *)
(***************************************************************************)
C18_NeverThrowsMalformedNoCall ==
    /\ upload.result # "threw"
    /\ Returned => upload.result \in {"null", "url"}
    /\ (Returned /\ upload.payload # "valid") => (upload.result = "null" /\ upload.calls = 0)

(***************************************************************************)
(* C18, amended. The upload never throws: it resolves to a URL or to null  *)
(* whatever fails, and an empty payload or a payload without a comma gives *)
(* null without any remote call.                                           *)
(***************************************************************************)
C18_NeverThrows ==
    /\ upload.result # "threw"
    /\ Returned => upload.result \in {"null", "url"}
    /\ (Returned /\ upload.payload \in {"empty", "nocomma"})
            => (upload.result = "null" /\ upload.calls = 0)

\* the POST threw after the folder requests were made, and the upload returned null
C18_Witness ==
    /\ upload.pc = "returned"
    /\ upload.caught
    /\ upload.attempts = 1 /\ upload.calls > 1
    /\ upload.result = "null"

(***************************************************************************)
(* C19. On a retryable transport failure the upload is tried again, up to  *)
(* a small fixed number of attempts, before null is returned.              *)
(***************************************************************************)
C19_RetriedBeforeNull ==
    (Returned /\ upload.result = "null" /\ upload.failure = "transport")
        => upload.attempts >= 2

(***************************************************************************)
(* C20. An upload that fails because the authorization is missing or       *)
(* rejected is told apart from a transport failure: the cycle aborts, the  *)
(* loop does not go on to push the row of the entry.                       *)
(***************************************************************************)
C20_AuthFailureAborts == ~(upload.pc = "pushed" /\ upload.failure = "auth")

\* cycle c with the ranges it reads: a cycle that is at the batch read has not
\* parsed them yet
WithRanges(c) == IF c.pc = "batchGet" THEN [c EXCEPT !.ex = ParseRanges(remote)] ELSE c

\* every row that cycle c set out to append is in the spreadsheet rem
AllAppended(c, rem) ==
    /\ \A k \in Kinds : \A m \in Range(UnsyncedMasters(c, k)) :
          \E r \in Range(DataRows(rem[k])) : r = MasterRow(k, m)
    /\ \A r \in Range(newOutwardRows(c)) : \E x \in Range(DataRows(rem.outward)) : x = r
    /\ \A r \in Range(newInwardRows(c)) : \E x \in Range(DataRows(rem.inward)) : x = r

(***************************************************************************)
(* C21. No error leaves the engine as an exception: a cycle ends either    *)
(* with {success: true} or with {success: false, message}, so that its     *)
(* caller shows the message and clears the busy flag; a cycle that ends    *)
(* with success has made every append it set out to make.                  *)
(***************************************************************************)
C21_StructuredOutcome ==
    [][\A i \in 1..Len(procs) :
          (Ends(i) /\ procs[i].pc \in CyclePcs) =>
            /\ ~isSyncing'
            /\ Completes(i) \/ Throws(i)
            /\ Completes(i) => AllAppended(WithRanges(procs[i]), remote')]_vars

\* a cycle has ended with success after appending outward rows, and a later cycle has
\* ended in the catch block
C21_Witness ==
    /\ lastSync.has
    /\ Len(lastSync.remote.outward) > 1
    /\ authError = "Sync failed"
    /\ procs = <<>>

(***************************************************************************)
(* C22. A sync started automatically, by a step that saves an entry or     *)
(* changes the outward list, never asks for the access token with an       *)
(* interactive prompt: requestAccessToken is called with the account       *)
(* chooser only for a sync the user started by hand, which leaves the      *)
(* state as it is.                                                         *)
(***************************************************************************)
C22_SilentAutoSync ==
    [][/\ (Len(procs') = Len(procs) + 1 /\ state' # state)
            => ~procs'[Len(procs')].forcePrompt
       /\ \A i \in 1..Len(procs) :
            (Len(procs') = Len(procs) /\ procs[i].pc = "initGapi" /\ procs'[i].pc = "token")
                => (procs'[i].prompt # "" => procs[i].forcePrompt)]_vars

\* the sync started by saving an outward entry has called requestAccessToken with the
\* empty prompt
C22_Witness ==
    \E i \in 1..Len(procs) :
        /\ procs[i].pc = "token"
        /\ procs[i].prompt = ""
        /\ \E e \in Range(state.outwardEntries) : ~e.synced

\* the key of a master as the deduplication is to compare it
NormKey(k, m) == Lower(Trim(MasterKey(k, m)))

(***************************************************************************)
(* C23. Master deduplication compares the keys trimmed and without regard  *)
(* to letter case: an unsynced local master whose key differs from the key *)
(* of a remote master in case or surrounding whitespace only is taken as   *)
(* present and is not among the masters the cycle appends.                 *)
(***************************************************************************)
C23_MasterDedupNormalized ==
    \A i \in 1..Len(procs) :
        procs[i].pc \in CyclePcs \ {"batchGet"} =>
            \A k \in Kinds : \A m \in Range(UnsyncedMasters(procs[i], k)) :
                ~\E x \in Range(procs[i].ex[k]) : NormKey(k, x) = NormKey(k, m)


(***************************************************************************)
(* C24. Identifier reuse in the merge: when a cycle completes, every local *)
(* outward or inward entry whose row the cycle appended is in the merged   *)
(* state, at the place of its row, under its local identifier; a row that  *)
(* a local entry produced never receives a newly drawn identifier.         *)
(***************************************************************************)
C24_IdentifierReuse ==
    [][\A i \in 1..Len(procs) : Completes(i) =>
          /\ \A j \in 1..Len(validOutwardToUpload(WithRanges(procs[i]))) :
                state'.outwardEntries[Len(WithRanges(procs[i]).ex.outward) + j].id
                    = validOutwardToUpload(WithRanges(procs[i]))[j].id
          /\ \A j \in 1..Len(validInwardToUpload(WithRanges(procs[i]))) :
                state'.inwardEntries[Len(WithRanges(procs[i]).ex.inward) + j].id
                    = validInwardToUpload(WithRanges(procs[i]))[j].id]_vars


\* the rows a cycle merges into the inward list: those read and those appended
MergedInwardRows(c) == c.ex.inward \o newInwardRows(c)

Mirrors(st, rem) ==
    /\ \A k \in Kinds : MapSeq(st[k], LAMBDA m : MasterRow(k, m)) = DataRows(rem[k])
    /\ Len(st.outwardEntries) = Len(DataRows(rem.outward))
    /\ \A j \in 1..Len(st.outwardEntries) :
          /\ st.outwardEntries[j].challanNo = DataRows(rem.outward)[j].challanNo
          /\ st.outwardEntries[j].qty = DataRows(rem.outward)[j].qty
          /\ st.outwardEntries[j].date.day = DataRows(rem.outward)[j].date.day
    /\ Len(st.inwardEntries) = Len(DataRows(rem.inward))
    /\ \A j \in 1..Len(st.inwardEntries) :
          /\ st.inwardEntries[j].qty = DataRows(rem.inward)[j].qty
          /\ st.inwardEntries[j].date.day = DataRows(rem.inward)[j].date.day

Returns ==
    /\ \E i \in 1..Len(procs) :
          \/ \E ok \in BOOLEAN : InitGapiReturns(i, ok)
          \/ \E resp \in TokenResponses : TokenResponse(i, resp)
          \/ \E ok \in BOOLEAN : BatchGetReturns(i, ok)
          \/ \E ok \in BOOLEAN : AppendMasterReturns(i, ok)
          \/ \E f \in SUBSET PendingUploads(i) : UploadsReturn(i, f)
          \/ \E ok \in BOOLEAN : AppendEntriesReturns(i, ok)
    /\ UNCHANGED sideVars

\* what a device holds that recorded a vendor, an outward entry and inward entries
\* before its API key was saved: no save started a sync
OfflineStates ==
    {[initialData EXCEPT
        !.vendors = <<NewMaster("vendors", [name |-> "Acme", code |-> "AC"], 1)>>,
        !.outwardEntries =
            <<[id |-> 3, date |-> IsoDate(1), vendorId |-> 1,
               challanNo |-> [code |-> "AC", seq |-> 1], skuId |-> 2, qty |-> MaxQty,
               workId |-> 0, photo |-> po, photoUrl |-> "", status |-> "OPEN",
               synced |-> FALSE]>>,
        !.inwardEntries =
            [j \in 1..Len(pin) |->
                [id |-> 3 + j, date |-> IsoDate(1), outwardChallanId |-> 3, vendorId |-> 1,
                 skuId |-> 2, qty |-> 1, comboQty |-> 0, photo |-> pin[j], photoUrl |-> "",
                 synced |-> FALSE]]] :
        po \in OutPhotos, pin \in {<<>>} \cup {<<ph>> : ph \in InPhotos}}

OfflineInit ==
    /\ state \in OfflineStates
    /\ syncTargetRef = state
    /\ remote = EmptySheets
    /\ apiKey = FALSE
    /\ isSyncing = FALSE
    /\ authError = ""
    /\ tokenClient = FALSE
    /\ gapiToken = "none"
    /\ procs = <<>>
    /\ syncsStarted = 0
    /\ inFlightOps = 0
    /\ lastSync = [has |-> FALSE, again |-> FALSE, merged |-> initialData, remote |-> EmptySheets]
    /\ report = NoReport
    /\ localStorage = NoItem
    /\ upload = NoUpload
    /\ weighing = NoWeighing
    /\ rowTrip = NoRowTrip

SyncNext ==
    \/ SaveConfig /\ UNCHANGED sideVars
    \/ ManualSync /\ UNCHANGED sideVars
    \/ \E i \in 1..Len(procs) : \E ok \in BOOLEAN :
            InitGapiReturns(i, ok) /\ UNCHANGED sideVars
    \/ \E i \in 1..Len(procs) : \E resp \in TokenResponses :
            TokenResponse(i, resp) /\ UNCHANGED sideVars
    \/ \E i \in 1..Len(procs) : \E ok \in BOOLEAN :
            BatchGetReturns(i, ok) /\ UNCHANGED sideVars
    \/ \E i \in 1..Len(procs) : \E ok \in BOOLEAN :
            AppendMasterReturns(i, ok) /\ UNCHANGED sideVars
    \/ \E i \in 1..Len(procs) : \E f \in SUBSET PendingUploads(i) :
            UploadsReturn(i, f) /\ UNCHANGED sideVars
    \/ \E i \in 1..Len(procs) : \E ok \in BOOLEAN :
            AppendEntriesReturns(i, ok) /\ UNCHANGED sideVars

(***************************************************************************)
(* The Inward form on a device that holds a vendor and one outward entry:  *)
(* receipts are saved, the entry is short-closed, and cycles run.          *)
(***************************************************************************)
InwardFormStates ==
    {[initialData EXCEPT
        !.vendors = <<NewMaster("vendors", [name |-> "Acme", code |-> "AC"], 1)>>,
        !.outwardEntries =
            <<[id |-> 3, date |-> IsoDate(1), vendorId |-> 1,
               challanNo |-> [code |-> "AC", seq |-> 1], skuId |-> 2, qty |-> MaxQty,
               workId |-> 0, photo |-> po, photoUrl |-> "", status |-> "OPEN",
               synced |-> FALSE]>>] : po \in OutPhotos}

InwardFormInit ==
    /\ state \in InwardFormStates
    /\ syncTargetRef = state
    /\ remote = EmptySheets
    /\ apiKey \in BOOLEAN
    /\ isSyncing = FALSE
    /\ authError = ""
    /\ tokenClient = FALSE
    /\ gapiToken = "none"
    /\ procs = <<>>
    /\ syncsStarted = 0
    /\ inFlightOps = 0
    /\ lastSync = [has |-> FALSE, again |-> FALSE, merged |-> initialData, remote |-> EmptySheets]
    /\ report = NoReport
    /\ localStorage = NoItem
    /\ upload = NoUpload
    /\ weighing = NoWeighing
    /\ rowTrip = NoRowTrip

InwardFormNext ==
    \/ SaveConfig /\ UNCHANGED sideVars
    \/ \E v \in VendorIds \ {0} : \E o \in OutwardIds : \E q \in 1..MaxQty :
         \E cq \in 0..MaxQty : \E d \in Days :
            SaveInward(v, o, q, cq, d, FALSE) /\ UNCHANGED sideVars
    \/ \E o \in OutwardIds : markJobComplete(o) /\ UNCHANGED sideVars
    \/ ManualSync /\ UNCHANGED sideVars
    \/ \E i \in 1..Len(procs) : \E ok \in BOOLEAN :
            InitGapiReturns(i, ok) /\ UNCHANGED sideVars
    \/ \E i \in 1..Len(procs) : \E resp \in TokenResponses :
            TokenResponse(i, resp) /\ UNCHANGED sideVars
    \/ \E i \in 1..Len(procs) : \E ok \in BOOLEAN :
            BatchGetReturns(i, ok) /\ UNCHANGED sideVars
    \/ \E i \in 1..Len(procs) : \E ok \in BOOLEAN :
            AppendMasterReturns(i, ok) /\ UNCHANGED sideVars
    \/ \E i \in 1..Len(procs) : \E f \in SUBSET PendingUploads(i) :
            UploadsReturn(i, f) /\ UNCHANGED sideVars
    \/ \E i \in 1..Len(procs) : \E ok \in BOOLEAN :
            AppendEntriesReturns(i, ok) /\ UNCHANGED sideVars

SpecInward == InwardFormInit /\ [][InwardFormNext]_vars

(***************************************************************************)
(* A spreadsheet whose sheets were created empty: batchGet returns no      *)
(* values for a range, and the first append writes row 1.                  *)
(***************************************************************************)
\* valueRanges[n].values is undefined for an empty sheet
HeaderlessSheets ==
    [vendors |-> <<>>, items |-> <<>>, workTypes |-> <<>>, users |-> <<>>,
     outward |-> <<>>, inward |-> <<>>, reconciliation |-> <<>>]

HeaderlessInit ==
    /\ state \in OfflineStates
    /\ syncTargetRef = state
    /\ remote = HeaderlessSheets
    /\ apiKey = FALSE
    /\ isSyncing = FALSE
    /\ authError = ""
    /\ tokenClient = FALSE
    /\ gapiToken = "none"
    /\ procs = <<>>
    /\ syncsStarted = 0
    /\ inFlightOps = 0
    /\ lastSync = [has |-> FALSE, again |-> FALSE, merged |-> initialData, remote |-> EmptySheets]
    /\ report = NoReport
    /\ localStorage = NoItem
    /\ upload = NoUpload
    /\ weighing = NoWeighing
    /\ rowTrip = NoRowTrip

SpecHeaderless == HeaderlessInit /\ [][SyncNext]_vars

SpecFair == OfflineInit /\ [][SyncNext]_vars /\ WF_vars(Returns)

SpecRefs == RefInit /\ [][SyncNext]_vars

(***************************************************************************)
(* C27. Every sync request that sets the busy flag clears it in the end,   *)
(* whether the cycle succeeds or fails, the token request reports an error *)
(* or starting the sync throws, given that every remote call and the token *)
(* request returns or fails in the end: the flag never stays set forever.  *)
(***************************************************************************)
C27_BusyFlagCleared == isSyncing ~> ~isSyncing

\* a request that had set the flag has ended in the catch block of the cycle, with
\* the flag cleared
C27_Witness == ~isSyncing /\ procs = <<>> /\ syncsStarted > 0 /\ authError = "Sync failed"


\* this step saves an outward entry through the Outward form
SavesOutward ==
    /\ Len(state'.outwardEntries) = Len(state.outwardEntries) + 1
    /\ ~state'.outwardEntries[Len(state'.outwardEntries)].synced

(***************************************************************************)
(* C28. Saving an outward entry whose SKU is not in the item master adds   *)
(* the item together with the entry: after the save the local state and    *)
(* the snapshot given to the automatic sync hold an item to which the      *)
(* entry's skuId refers, and no row of the remote outward range carries    *)
(* the SKU 'Unknown'.                                                      *)
(***************************************************************************)
C28_ItemSavedWithEntry ==
    [][/\ SavesOutward =>
            /\ \E x \in Range(state'.items) :
                  x.id = state'.outwardEntries[Len(state'.outwardEntries)].skuId
            /\ \E x \in Range(syncTargetRef'.items) :
                  x.id = syncTargetRef'.outwardEntries[Len(syncTargetRef'.outwardEntries)].skuId
       /\ \A r \in Range(DataRows(remote'.outward)) : r.sku # "Unknown"]_vars


(***************************************************************************)
(* C29. Every outward entry saved through the Outward form has a vendorId  *)
(* that is the identifier of a vendor of the local state at save time and  *)
(* a challan number built from that vendor's code, never the placeholder   *)
(* '---', also when a sync cycle has completed between the selection of    *)
(* the vendor and the save.                                                *)
(***************************************************************************)
C29_SavedVendorResolves ==
    [][SavesOutward =>
          /\ \E v \in Range(state.vendors) :
                /\ v.id = state'.outwardEntries[Len(state'.outwardEntries)].vendorId
                /\ v.code = state'.outwardEntries[Len(state'.outwardEntries)].challanNo.code
          /\ state'.outwardEntries[Len(state'.outwardEntries)].challanNo # NoChallan]_vars


\* no two records of the list have one identifier
DistinctIds(list) == \A j, q \in 1..Len(list) : j # q => list[j].id # list[q].id

(***************************************************************************)
(* C30. In the state a successful cycle returns the identifiers are        *)
(* pairwise distinct within the outward list and within the inward list,   *)
(* also when two inward rows share outward challan and quantity on         *)
(* different dates or two remote outward rows share a challan number.      *)
(***************************************************************************)
C30_MergedIdsDistinct ==
    [][\A i \in 1..Len(procs) : Completes(i) =>
          /\ DistinctIds(state'.outwardEntries)
          /\ DistinctIds(state'.inwardEntries)]_vars


\* line 226: the signature the dedup index computes from a row of the inward range
RowSignature(r) == getInwardSignature(r.date, r.vendor, r.challanNo, r.qty)

\* lines 236-238: the signature the filter computes for a local inward entry
EntrySignature(st, e) ==
    getInwardSignature(e.date, VendorNameOf(st, e.vendorId),
                       ChallanOf(st, e.outwardChallanId), e.qty)

(***************************************************************************)
(* C31. Writer and dedup index agree on the inward signature: the          *)
(* signature computed from the row a cycle writes for a local inward entry *)
(* equals the signature computed for that entry, so that an entry whose    *)
(* row is in the remote store is recognised as present.                    *)
(***************************************************************************)
C31_SignaturesAgree ==
    \A i \in Cycles :
        procs[i].pc # "batchGet" =>
            \A j \in 1..Len(validInwardToUpload(procs[i])) :
                RowSignature(newInwardRows(procs[i])[j])
                    = EntrySignature(procs[i].snap, validInwardToUpload(procs[i])[j])


\* an absent optional text reads back as the empty text, an absent comboQty as 0
ReadBack(x, absent) == IF x.t = "undef" THEN absent ELSE x

(***************************************************************************)
(* C32. Row writer and row parser agree on the column layout: the merged   *)
(* entry built from the row of an uploaded outward or inward entry has the *)
(* challan number (outward), qty, comboQty, the three weights, checkedBy,  *)
(* enteredBy, remarks and status (outward) of the local entry, an absent   *)
(* optional text read back as empty and an absent comboQty as 0.           *)
(***************************************************************************)
C32_WriterParserAgree ==
    rowTrip.pc = "merged" =>
        /\ rowTrip.merged.challanNo = rowTrip.entry.challanNo
        /\ rowTrip.merged.status = rowTrip.entry.status
        /\ rowTrip.merged.qty = rowTrip.entry.qty
        /\ rowTrip.merged.comboQty = ReadBack(rowTrip.entry.comboQty, Num(0))
        /\ rowTrip.merged.totalWeight = rowTrip.entry.totalWeight
        /\ rowTrip.merged.pendalWeight = rowTrip.entry.pendalWeight
        /\ rowTrip.merged.materialWeight = rowTrip.entry.materialWeight
        /\ rowTrip.merged.checkedBy = ReadBack(rowTrip.entry.checkedBy, Str(""))
        /\ rowTrip.merged.enteredBy = ReadBack(rowTrip.entry.enteredBy, Str(""))
        /\ rowTrip.merged.remarks = ReadBack(rowTrip.entry.remarks, Str(""))

\* an inward entry without comboQty and without remarks has been merged from its row
C32_Witness ==
    /\ rowTrip.pc = "merged"
    /\ rowTrip.kind = "inward"
    /\ rowTrip.entry.comboQty = Undef
    /\ rowTrip.entry.remarks = Undef
    /\ rowTrip.entry.checkedBy = Str("Ravi")
    /\ rowTrip.merged.comboQty = Num(0)


\* the master of list that id refers to carries the key value under field
RefersTo(list, id, field, value) == \E m \in Range(list) : m.id = id /\ m[field] = value

\* entry e of state st refers to masters of st, and entry m of state mt refers to
\* masters of mt with the same vendor name, SKU and work name
SameMasters(st, e, mt, m) ==
    /\ \A v \in Range(st.vendors) : v.id = e.vendorId => RefersTo(mt.vendors, m.vendorId, "name", v.name)
    /\ \A x \in Range(st.items) : x.id = e.skuId => RefersTo(mt.items, m.skuId, "sku", x.sku)
    /\ \A w \in Range(st.workTypes) : w.id = e.workId => RefersTo(mt.workTypes, m.workId, "name", w.name)

(***************************************************************************)
(* C33. Master references survive a sync: when a cycle completes, every    *)
(* outward entry it uploaded whose vendorId, skuId and workId referred to  *)
(* local masters has a merged entry whose vendorId, skuId and workId refer *)
(* to merged masters with the same vendor name, SKU and work name, also    *)
(* when the local master was not appended because the remote store held a  *)
(* master with its key.                                                    *)
(***************************************************************************)
C33_MasterReferencesSurvive ==
    [][\A i \in 1..Len(procs) : Completes(i) =>
          \A j \in 1..Len(validOutwardToUpload(WithRanges(procs[i]))) :
              SameMasters(procs[i].snap, validOutwardToUpload(WithRanges(procs[i]))[j],
                          state', state'.outwardEntries[Len(WithRanges(procs[i]).ex.outward) + j])]_vars


(***************************************************************************)
(* C34. Masters are not duplicated remotely: after any number of cycles,   *)
(* also retried after a failure, the vendor range holds at most one row    *)
(* per vendor code, the item range one per SKU and the work-type and user  *)
(* ranges one per name, also when two unsynced local masters with one key  *)
(* are in one batch.                                                       *)
(***************************************************************************)
C34_NoDuplicateMasters ==
    \A k \in Kinds : \A j, q \in 1..Len(DataRows(remote[k])) :
        j # q => MasterKey(k, DataRows(remote[k])[j]) # MasterKey(k, DataRows(remote[k])[q])


(***************************************************************************)
(* C35. A short-close reaches the remote store: whenever a local outward   *)
(* entry is synced, the remote row with its challan number carries the     *)
(* status of the entry; after markJobComplete on an entry whose row is in  *)
(* the store and a successful cycle, that row has status COMPLETED.        *)
(***************************************************************************)
C35_ShortCloseReachesRemote ==
    \A e \in Range(state.outwardEntries) :
        e.synced =>
            \A r \in Range(DataRows(remote.outward)) :
                r.challanNo = e.challanNo => r.status = e.status


(***************************************************************************)
(* C36. The on-screen report and the exported reconciliation report agree  *)
(* for every outward entry and every set of inward entries: both give the  *)
(* same received qty and the same short qty, and the on-screen row is      *)
(* shown as completed exactly when the exported status is not 'pending',   *)
(* also for an OPEN entry with sent qty 0.                                 *)
(***************************************************************************)
C36_ScreenAndExportAgree ==
    report.pc = "screen" =>
        \A j \in 1..Len(report.rows) :
            /\ report.rows[j].inQty = handleDownloadReconReport(state)[j].qtyRec
            /\ report.rows[j].shortQty = handleDownloadReconReport(state)[j].shortQty
            /\ isCompleted(report.rows[j])
                  <=> handleDownloadReconReport(state)[j].status # "pending"



C38_NoRowSkipped ==
    lastSync.has =>
        /\ \A r \in Range(lastSync.remote.outward) :
              r # OutwardHeader =>
                  \E e \in Range(lastSync.merged.outwardEntries) : e.challanNo = r.challanNo
        /\ Len(lastSync.merged.inwardEntries)
              = Cardinality({j \in 1..Len(lastSync.remote.inward) :
                                lastSync.remote.inward[j] # InwardHeader})

====
